---- MODULE Spec2Model ----
(***************************************************************************)
(* Incremental sync engine of the Shopify analytics platform:              *)
(* scripts/shopify_api.py (fetch client), scripts/sync.py (entity passes), *)
(* scripts/database.py (metadata / watermark store) and scripts/main.py    *)
(* (orchestrator).  Times are seconds; timestamp strings keep their UTC    *)
(* offset so that parsing and formatting are real conversions.             *)
(***************************************************************************)
EXTENDS Integers, Sequences, FiniteSets, TLC

(* ------------------------------ bounds --------------------------------- *)
MaxId == 2
MaxEvents == 2
MaxRuns == 2
MaxNested == 2
MaxItems == 2
MaxSkipped == 2
MaxJobs == 2
MaxPages == 2
MaxFetched == 3
MaxExchanges == 2

(* ------------------------- program constants --------------------------- *)
LOOKBACK_SECONDS == 60
PAGE_LIMIT == 250
MAX_RETRIES == 5
NoId == 0

TickSeconds == LOOKBACK_SECONDS \div 2
Ids == 1..MaxId
\* Time that passes before a change at the shop: less, or more, than the lookback.
Advances == {TickSeconds, LOOKBACK_SECONDS + TickSeconds}
TzOffsets == {0, -18000}
Entities == {"products", "customers", "orders"}

(* ----------------------- timestamps and datetimes ---------------------- *)
\* A timestamp string as it appears in JSON or in the metadata table:
\* wall-clock seconds, UTC offset, and the written form
\* ("offset" = "...+hh:mm", "Z" = "...Z", "none" = missing/null, "bad" = unparsable).
TsString(wall, off, form) == [wall |-> wall, off |-> off, form |-> form]
NoneStr == TsString(0, 0, "none")
BadStr == TsString(0, 0, "bad")

\* An aware datetime object, or None.
NoDt == [some |-> FALSE, wall |-> 0, off |-> 0]
Dt(wall, off) == [some |-> TRUE, wall |-> wall, off |-> off]

\* The instant (UTC seconds) an aware datetime denotes.
Instant(dt) == dt.wall - dt.off

\* datetime.fromisoformat(s): accepts the "+hh:mm" form only.
fromisoformat(s) == IF s.form = "offset" THEN Dt(s.wall, s.off) ELSE NoDt

\* updated_at.replace("Z", "+00:00")
replaceZ(s) == IF s.form = "Z" THEN TsString(s.wall, 0, "offset") ELSE s

\* dt.isoformat(): keeps the datetime's own offset.
isoformat(dt) == TsString(dt.wall, dt.off, "offset")

\* dt - timedelta(seconds = n)
minus_seconds(dt, n) == Dt(dt.wall - n, dt.off)

\* Variant: the wall clock is written as it stands, without astimezone(utc).
isoformat_for_api_naive(dt) == TsString(dt.wall, 0, "Z")

\* dt.astimezone(timezone.utc).replace(tzinfo=None).isoformat() + "Z"
isoformat_for_api(dt) == TsString(Instant(dt), 0, "Z")

\* The instant a well-formed timestamp string denotes.
StrInstant(s) == Instant(fromisoformat(replaceZ(s)))
Parsable(s) == s.form \in {"offset", "Z"}

(* ------------------------------ tables --------------------------------- *)
EmptyTable == << >>

MaxOf(S) == CHOOSE m \in S : \A x \in S : x <= m

\* Variant: INSERT OR IGNORE, a row whose key is taken is not written.
InsertOrReplace_ignore(t, id, row) ==
    IF id # NoId /\ id \in DOMAIN t THEN t
    ELSE LET key == IF id = NoId
                    THEN (IF DOMAIN t = {} THEN 1 ELSE MaxOf(DOMAIN t) + 1)
                    ELSE id
         IN [k \in DOMAIN t \cup {key} |-> IF k = key THEN [row EXCEPT !.id = key] ELSE t[k]]

\* INSERT OR REPLACE keyed by INTEGER PRIMARY KEY; a NULL key gets a fresh rowid.
InsertOrReplace(t, id, row) ==
    LET key == IF id = NoId
               THEN (IF DOMAIN t = {} THEN 1 ELSE MaxOf(DOMAIN t) + 1)
               ELSE id
    IN [k \in DOMAIN t \cup {key} |-> IF k = key THEN [row EXCEPT !.id = key] ELSE t[k]]

EmptyDb ==
    [products |-> EmptyTable, product_variants |-> EmptyTable,
     customers |-> EmptyTable, orders |-> EmptyTable,
     line_items |-> EmptyTable, metadata |-> EmptyTable]

\* Variant: the three passes keep their watermark under one key.
WatermarkKey_shared(e) == "products_last_sync"

\* The metadata key under which the pass of e keeps its watermark.
WatermarkKey(e) ==
    CASE e = "products" -> "products_last_sync"
      [] e = "customers" -> "customers_last_sync"
      [] e = "orders" -> "orders_last_sync"

\* db_get_metadata(key): the stored value, or None.
db_get_metadata(d, key) ==
    IF key \in DOMAIN d.metadata THEN d.metadata[key] ELSE NoneStr

\* db_set_metadata(key, value): INSERT OR REPLACE INTO metadata.
db_set_metadata(d, key, value) ==
    [d EXCEPT !.metadata =
        [k \in DOMAIN d.metadata \cup {key} |-> IF k = key THEN value ELSE d.metadata[k]]]

(* --------------------------- the write loops --------------------------- *)
\* A price field of a JSON object: a numeric string ("12.50"), a string that
\* is no number ("abc"), JSON null, or no such field; val is in cents.
PriceField(form, val) == [form |-> form, val |-> val]
GoodPrice == PriceField("num", 1250)
PriceFields == {GoodPrice, PriceField("bad", 0), PriceField("null", 0), PriceField("missing", 0)}

\* The value of a REAL column: NULL or a number (in cents).
SqlNull == [null |-> TRUE, val |-> 0]
SqlReal(v) == [null |-> FALSE, val |-> v]

\* Variant: the except branch substitutes 0.0 for what float() rejects.
FloatOrNone_zero(p) ==
    IF p.form = "num" THEN SqlReal(p.val) ELSE SqlReal(0)

\* "try: x = float(obj.get(field, 0.0)) except Exception: x = None"
FloatOrNone(p) ==
    CASE p.form = "missing" -> SqlReal(0)
      [] p.form = "num" -> SqlReal(p.val)
      [] OTHER -> SqlNull

\* A child object of a fetched record (a variant or a line item).
Child(id, price) == [id |-> id, price |-> price]

\* The "customer" field of an order's JSON: no such field (or null), the
\* empty object, or an object, with its id or without one (id = NoId).
Customer(form, id) == [form |-> form, id |-> id]
NoCustomer == Customer("absent", NoId)
Customers == {NoCustomer, Customer("empty", NoId), Customer("object", NoId), Customer("object", 1)}

\* The value of an INTEGER column that is not NULL.
SqlInteger(v) == [null |-> FALSE, val |-> v]

\* "customer_id = None; customer = o.get('customer'); if customer:
\* customer_id = customer.get('id')"
CustomerId(o) ==
    IF o.customer.form = "object" /\ o.customer.id # NoId
    THEN SqlInteger(o.customer.id) ELSE SqlNull

\* A fetched JSON record: [id, updated_at, nested, total_price, customer];
\* nested holds the variants of a product or the line items of an order.
Item(id, updated_at, nested) ==
    [id |-> id, updated_at |-> updated_at, nested |-> nested, total_price |-> GoodPrice,
     customer |-> NoCustomer]

\* Variant: the comparison with max_updated is left out (the last parsed wins).
UpdateMax_last(max_updated, updated_at) ==
    IF updated_at.form = "none" THEN max_updated
    ELSE LET dt == fromisoformat(replaceZ(updated_at))
         IN IF ~dt.some THEN max_updated ELSE dt

\* sync.py: "if updated_at: try: dt = fromisoformat(...); if not max_updated
\* or dt > max_updated: max_updated = dt; except: pass"
UpdateMax(max_updated, updated_at) ==
    IF updated_at.form = "none" THEN max_updated
    ELSE LET dt == fromisoformat(replaceZ(updated_at))
         IN IF ~dt.some THEN max_updated
            ELSE IF ~max_updated.some \/ Instant(dt) > Instant(max_updated)
                 THEN dt ELSE max_updated

\* The table that holds the parents / the children of an entity type.
ChildTable(e) == IF e = "products" THEN "product_variants" ELSE "line_items"

\* The row written for a fetched record: orders carry the coerced total_price.
ParentRow(e, r) ==
    IF e = "orders"
    THEN [id |-> r.id, updated_at |-> r.updated_at, total_price |-> FloatOrNone(r.total_price),
          customer_id |-> CustomerId(r)]
    ELSE [id |-> r.id, updated_at |-> r.updated_at]

\* Variant: the child row is written without the id of its parent.
ChildRow_unlinked(e, pid, c) ==
    IF e = "orders"
    THEN [id |-> c.id, parent_id |-> NoId, price |-> FloatOrNone(c.price)]
    ELSE [id |-> c.id, parent_id |-> NoId]

\* The row written for a child: line items carry the coerced price.
ChildRow(e, pid, c) ==
    IF e = "orders"
    THEN [id |-> c.id, parent_id |-> pid, price |-> FloatOrNone(c.price)]
    ELSE [id |-> c.id, parent_id |-> pid]

\* p["id"], c["id"], o["id"] and v["id"] raise KeyError when the id is absent;
\* li.get("id") does not.
ParentKeyError(e, r) == r.id = NoId
ChildKeyError(e, c) == e = "products" /\ c.id = NoId

\* The INSERT OR REPLACE of a parent row / of a child row.
InsertParent(e, d, r) == [d EXCEPT ![e] = InsertOrReplace(d[e], r.id, ParentRow(e, r))]
InsertChild(e, d, pid, c) ==
    [d EXCEPT ![ChildTable(e)] = InsertOrReplace(d[ChildTable(e)], c.id, ChildRow(e, pid, c))]

\* Variant: the children the store holds for the parent are deleted before
\* the fetched ones are written.
RECURSIVE StoreNested_fresh(_, _, _, _, _)
StoreNested_fresh(e, d, pid, nested, k) ==
    LET ct == ChildTable(e)
        d0 == IF k > 1 THEN d
              ELSE [d EXCEPT ![ct] =
                       [key \in {x \in DOMAIN d[ct] : d[ct][x].parent_id # pid} |-> d[ct][key]]]
    IN IF k > Len(nested) THEN [ok |-> TRUE, db |-> d0]
       ELSE IF ChildKeyError(e, nested[k]) THEN [ok |-> FALSE, db |-> d0]
       ELSE StoreNested_fresh(e, InsertChild(e, d0, pid, nested[k]), pid, nested, k + 1)

\* The inner loop over p["variants"] (v["id"] raises KeyError when absent)
\* or o["line_items"] (li.get("id") yields None, stored as a NULL key).
RECURSIVE StoreNested(_, _, _, _, _)
StoreNested(e, d, pid, nested, k) ==
    IF k > Len(nested) THEN [ok |-> TRUE, db |-> d]
    ELSE IF ChildKeyError(e, nested[k]) THEN [ok |-> FALSE, db |-> d]
    ELSE StoreNested(e, InsertChild(e, d, pid, nested[k]), pid, nested, k + 1)

\* The body of "for p in items": parent row, children, max_updated.
\* st = [ok, db, max_updated, saved].
StoreRecord(e, st, r) ==
    IF ParentKeyError(e, r) THEN [st EXCEPT !.ok = FALSE]
    ELSE LET d1 == InsertParent(e, st.db, r)
             n == IF e = "customers" THEN [ok |-> TRUE, db |-> d1]
                  ELSE StoreNested(e, d1, r.id, r.nested, 1)
         IN IF ~n.ok THEN [st EXCEPT !.ok = FALSE]
            ELSE [ok |-> TRUE, db |-> n.db,
                  max_updated |-> UpdateMax(st.max_updated, r.updated_at),
                  saved |-> st.saved + 1]

\* Variant: the loop is left after its first iteration.
StoreLoop_first(e, st, list, k) ==
    IF Len(list) = 0 THEN st ELSE StoreRecord(e, st, list[1])

RECURSIVE StoreLoop(_, _, _, _)
StoreLoop(e, st, list, k) ==
    IF k > Len(list) \/ ~st.ok THEN st
    ELSE StoreLoop(e, StoreRecord(e, st, list[k]), list, k + 1)

\* connect, loop, conn.commit(): an exception inside the loop leaves the
\* transaction uncommitted, so the database keeps its previous content.
StoreItems(e, d, list) ==
    LET st == StoreLoop(e, [ok |-> TRUE, db |-> d, max_updated |-> NoDt, saved |-> 0], list, 1)
    IN IF st.ok THEN st ELSE [st EXCEPT !.db = d]

\* Variant: the watermark is written whether or not a record was parsed.
AdvanceWatermark_always(e, d, max_updated) ==
    db_set_metadata(d, WatermarkKey(e), isoformat(max_updated))

\* "if max_updated: db_set_metadata(key, max_updated.isoformat())"
AdvanceWatermark(e, d, max_updated) ==
    IF max_updated.some THEN db_set_metadata(d, WatermarkKey(e), isoformat(max_updated)) ELSE d

(* --------------------------- the fetch client -------------------------- *)
\* One response of the remote to one attempt.
Outcomes == {"ok", "429", "err"}

\* What one attempt gets: no response (a transport error: timeout, connection
\* refused) or the status code of the response.
NoStatus == 0
Statuses == {NoStatus, 101, 200, 204, 304, 404, 429, 500}

\* resp.raise_for_status(): HTTPError when 400 <= status_code < 600.
raise_for_status(status) == status >= 400 /\ status < 600

\* The branch of the loop body an attempt takes: "429" (the rate limit branch),
\* "err" (RequestException: a transport error or the HTTPError of
\* raise_for_status), "ok" ("return resp").
OutcomeOf(status) ==
    IF status = NoStatus THEN "err"
    ELSE IF status = 429 THEN "429"
    ELSE IF raise_for_status(status) THEN "err"
    ELSE "ok"

\* The Retry-After header of a response: absent, integer seconds ("3"), or
\* seconds written with a decimal point ("2.0").
NoRetryAfter == [form |-> "absent", secs |-> 0]
RetryAfter(n) == [form |-> "int", secs |-> n]
RetryAfterDecimal(n) == [form |-> "decimal", secs |-> n]
RetryAfterHeaders == {NoRetryAfter, RetryAfter(0), RetryAfter(3), RetryAfterDecimal(2)}

\* int(resp.headers.get("Retry-After", sleep_seconds)): the default when the
\* header is absent, the number when it is an integer literal, ValueError
\* otherwise.
IntOfRetryAfter(h, sleep_seconds) ==
    CASE h.form = "absent" -> [ok |-> TRUE, val |-> sleep_seconds]
      [] h.form = "int" -> [ok |-> TRUE, val |-> h.secs]
      [] OTHER -> [ok |-> FALSE, val |-> 0]

NoResponse == [kind |-> "none", retry_after |-> NoRetryAfter]

\* State of the retry loop of request_with_retries: attempt counts the loop
\* iterations, sent the HTTP requests issued, slept lists the sleeps taken;
\* result is "ok" (a response returned), "raise" (RuntimeError after the
\* loop) or "error" (another exception left the function).
RetryInit ==
    [attempt |-> 0, sent |-> 0, sleep_seconds |-> 1, slept |-> << >>,
     result |-> "pending", last |-> NoResponse]

\* Variant: a 429 is retried without consuming an attempt.
RetryStep_free429(st, kind, retry_after) ==
    IF st.result # "pending" THEN st
    ELSE IF kind = "ok"
         THEN [st EXCEPT !.attempt = @ + 1, !.sent = @ + 1, !.result = "ok",
                         !.last = [kind |-> kind, retry_after |-> retry_after]]
    ELSE IF kind = "429"
         THEN [st EXCEPT !.sent = @ + 1, !.slept = Append(@, st.sleep_seconds),
                         !.last = [kind |-> kind, retry_after |-> retry_after]]
    ELSE LET nxt == [st EXCEPT !.attempt = @ + 1, !.sent = @ + 1, !.sleep_seconds = @ * 2,
                               !.slept = Append(@, st.sleep_seconds),
                               !.last = [kind |-> kind, retry_after |-> retry_after]]
         IN IF nxt.attempt >= MAX_RETRIES THEN [nxt EXCEPT !.result = "raise"] ELSE nxt

\* Variant: the rate limit branch leaves the backoff value as it is.
RetryStep_flat429(st, kind, retry_after) ==
    IF st.result # "pending" THEN st
    ELSE LET got == [st EXCEPT !.attempt = @ + 1, !.sent = @ + 1,
                               !.last = [kind |-> kind, retry_after |-> retry_after]]
         IN IF kind = "ok" THEN [got EXCEPT !.result = "ok"]
            ELSE IF kind = "429" /\ ~IntOfRetryAfter(retry_after, st.sleep_seconds).ok
                 THEN [got EXCEPT !.result = "error"]
            ELSE LET nap == IF kind = "429"
                            THEN IntOfRetryAfter(retry_after, st.sleep_seconds).val
                            ELSE st.sleep_seconds
                     nxt == [got EXCEPT !.sleep_seconds = IF kind = "429" THEN @ ELSE @ * 2,
                                        !.slept = Append(@, nap)]
                 IN IF nxt.attempt >= MAX_RETRIES THEN [nxt EXCEPT !.result = "raise"]
                    ELSE nxt

\* One iteration of "for attempt in range(max_retries)" on one response.
RetryStep(st, kind, retry_after) ==
    IF st.result # "pending" THEN st
    ELSE LET got == [st EXCEPT !.attempt = @ + 1, !.sent = @ + 1,
                               !.last = [kind |-> kind, retry_after |-> retry_after]]
         IN IF kind = "ok" THEN [got EXCEPT !.result = "ok"]
            ELSE IF kind = "429" /\ ~IntOfRetryAfter(retry_after, st.sleep_seconds).ok
                 THEN [got EXCEPT !.result = "error"]
            ELSE LET nap == IF kind = "429"
                            THEN IntOfRetryAfter(retry_after, st.sleep_seconds).val
                            ELSE st.sleep_seconds
                     nxt == [got EXCEPT !.sleep_seconds = @ * 2, !.slept = Append(@, nap)]
                 IN IF nxt.attempt >= MAX_RETRIES THEN [nxt EXCEPT !.result = "raise"]
                    ELSE nxt

\* request_with_retries on a sequence of responses (kinds only; Retry-After absent).
RECURSIVE RetryRun(_, _, _)
RetryRun(st, outs, k) ==
    IF k > Len(outs) THEN st ELSE RetryRun(RetryStep(st, outs[k], NoRetryAfter), outs, k + 1)

request_with_retries(outs) == RetryRun(RetryInit, outs, 1)

\* The response sequences the remote can produce for one logical request:
\* failures followed by a success, or MAX_RETRIES failures.
RECURSIVE FailSeqs(_)
FailSeqs(n) ==
    IF n = 0 THEN {<< >>}
    ELSE {Append(s, x) : s \in FailSeqs(n - 1), x \in Outcomes \ {"ok"}}

ResponseSeqs ==
    (UNION {{Append(s, "ok") : s \in FailSeqs(n)} : n \in 0..(MAX_RETRIES - 1)})
        \cup FailSeqs(MAX_RETRIES)

\* What request_with_retries can end with: "ok" (a 2xx response is returned,
\* at the first attempt or after retries) or "raise" (RuntimeError after
\* MAX_RETRIES attempts).
RequestResults ==
    {[result |-> request_with_retries(outs).result,
      retried |-> request_with_retries(outs).attempt > 1] : outs \in ResponseSeqs}

\* A URL: the entity's collection, the id cursor and the updated_at_min filter.
Url(after, min) == [after |-> after, min |-> min]
NoUrl == Url(0 - 1, NoneStr)

\* parse_link_header: "<url>; rel=name" segments, rel -> url (last one wins).
RECURSIVE ParseLinks(_, _, _)
ParseLinks(header, k, links) ==
    IF k > Len(header) THEN links
    ELSE LET seg == header[k]
         IN IF ~seg.has_rel THEN ParseLinks(header, k + 1, links)
            ELSE ParseLinks(header, k + 1,
                    [r \in DOMAIN links \cup {seg.rel} |->
                        IF r = seg.rel THEN seg.url ELSE links[r]])

parse_link_header(header) == ParseLinks(header, 1, << >>)

\* links.get("next")
NextLink(links) == IF "next" \in DOMAIN links THEN links["next"] ELSE NoUrl

(* ------------------------------- state --------------------------------- *)
VARIABLES
    db,           \* the SQLite store: five entity tables and metadata
    remote,       \* the shop's records per entity type: id -> [updated_at]
    shop_tz,      \* UTC offset of the shop's timezone (0 is written "Z")
    clock,        \* the shop's clock (seconds)
    events,       \* number of remote changes so far
    runs,         \* number of run_full_sync invocations started
    pc,           \* position of run_full_sync
    incremental,  \* argument of the current invocation
    cur,          \* entity type of the current pass
    phase,        \* position inside the current pass
    last_sync,    \* the pass's last_sync
    params,       \* the pass's params
    all_items,    \* fetch_all_rest: all_items
    page_count,   \* fetch_all_rest: page_count
    links,        \* fetch_all_rest: links
    req,          \* outcome of the last request_with_retries
    items,        \* the pass's items (the list fetch_all_rest returned)
    max_updated,  \* the pass's max_updated
    saved,        \* the pass's saved counter
    served,       \* pages the remote has served to the current fetch
    snap,         \* the remote records of cur when the pass began
    retry,        \* request_with_retries: the state of its retry loop
    conn,         \* the pass's sqlite3 connection: its open transaction
    schema,       \* the tables of the store file and their columns
    stop,         \* a stop signal (SIGINT) has been raised
    thread,       \* the thread that executes run_full_sync
    last_run,     \* how the previous invocation ended (what its log shows)
    executor,     \* the scheduler's executor: running instances of the job
    wire,         \* the HTTP requests the current fetch has issued, in order
    down,         \* the downstream steps the current invocation has run
    web           \* the authorization front end: session, requests, response

vars == <<db, remote, shop_tz, clock, events, runs, pc, incremental, cur, phase, last_sync,
          params, all_items, page_count, links, req, items, max_updated, saved,
          served, snap, retry, conn, schema, stop, thread, last_run,
          executor, wire, down, web>>

\* What a step of the orchestrator or of a pass leaves alone unless it says otherwise.
\* What only the scheduler, the HTTP client, the downstream steps and the
\* authorization front end write.
sideVars == <<executor, wire, down, web>>

auxVars == <<retry, conn, schema, stop, thread, last_run, sideVars>>

envVars == <<remote, shop_tz, clock, events>>
passVars == <<last_sync, params, all_items, page_count, links, req, items,
              max_updated, saved, served, snap>>

NoParams == [limit |-> 0, updated_at_min |-> NoneStr]
NoReq == [result |-> "none", retried |-> FALSE]
NoItems == [has |-> FALSE, list |-> << >>]
\* The connection of a write loop: its uncommitted view of the store (db), the
\* record (k) and the statement inside the record (j = 0: the parent's INSERT,
\* j >= 1: the j-th child's INSERT) the loop is at, and, once the loop was left
\* abnormally, what ended it (fault).  NoConn: no connection is open.
NoConn == [open |-> FALSE, db |-> EmptyDb, k |-> 0, j |-> 0, fault |-> "none"]
\* A store file that does not exist yet: no table.  schema.tables maps each
\* table to its columns; added and failed are the column additions the last
\* init_db logged as done and as refused.
NoSchema == [tables |-> << >>, added |-> {}, failed |-> {}]
\* No invocation has ended yet.  last_run.failed: the invocation raised;
\* at: the pass it raised in; mark: the stored watermark of that pass's
\* entity type when the invocation ended.
NoRun == [failed |-> FALSE, at |-> "none", mark |-> NoneStr]
\* The executor runs no instance of the job and has skipped no run time.
NoJobs == [instances |-> 0, skipped |-> 0]
\* The front end has served no request: the session cookie holds no state
\* token, no request has gone out to a shop, no response has been returned.
\* web.request is the request served last, web.response the answer to it.
NoArg == ""
NoRequest == [path |-> "none", cookie |-> FALSE, state |-> NoArg, code |-> NoArg, shop |-> NoArg]
NoWeb == [session |-> NoArg, outbound |-> << >>, request |-> NoRequest,
          response |-> [status |-> 0, token |-> FALSE]]

\* Nothing has happened yet outside the passes.
SideInit ==
    /\ executor = NoJobs
    /\ wire = << >>
    /\ down = << >>
    /\ web = NoWeb

(* ------------------------------ the remote ----------------------------- *)
\* Children embedded in the JSON of a record of the shop.
NestedOf(e, i) == IF e = "customers" THEN << >> ELSE <<Child(10 * i + 1, GoodPrice)>>

\* The instant t as the shop writes it in its own timezone.
ShopStamp(t) ==
    IF shop_tz = 0 THEN TsString(t, 0, "Z") ELSE TsString(t + shop_tz, shop_tz, "offset")

\* The updated_at of record i of e after a change at instant t: a record whose
\* JSON carries no updated_at keeps lacking it.
Restamp(e, i, t) ==
    IF i \in DOMAIN remote[e] /\ remote[e][i].updated_at.form = "none"
    THEN NoneStr ELSE ShopStamp(t)

RECURSIVE SortedSeq(_)
SortedSeq(S) ==
    IF S = {} THEN << >>
    ELSE LET m == CHOOSE x \in S : \A y \in S : x <= y
         IN <<m>> \o SortedSeq(S \ {m})

Min2(a, b) == IF a <= b THEN a ELSE b

\* Records of e the request u selects: beyond the cursor, inside the filter.
Matching(e, u) ==
    {i \in DOMAIN remote[e] :
        /\ i > u.after
        /\ \/ u.min.form = "none"
           \/ /\ Parsable(remote[e][i].updated_at)
              /\ StrInstant(remote[e][i].updated_at) >= StrInstant(u.min)}

\* The 200 response to request u with page size n: body items and Link header.
Response(e, u, n) ==
    LET ids == SubSeq(SortedSeq(Matching(e, u)), 1, n)
        more == Cardinality(Matching(e, u)) > n
        prev == IF u.after > 0
                THEN <<[url |-> Url(0, u.min), rel |-> "previous", has_rel |-> TRUE]>>
                ELSE << >>
        next == IF more
                THEN <<[url |-> Url(ids[n], u.min), rel |-> "next", has_rel |-> TRUE]>>
                ELSE << >>
    IN [body |-> [k \in 1..Len(ids) |->
                     Item(ids[k], remote[e][ids[k]].updated_at, NestedOf(e, ids[k]))],
        link |-> prev \o next]

\* Page sizes the shop may choose for request u under limit lim.
PageSizes(e, u, lim) ==
    IF Matching(e, u) = {} THEN {0} ELSE 1..Min2(lim, Cardinality(Matching(e, u)))

\* The remote is observed only when a request is issued.
\* A change to the records of e is therefore placed right before a request of
\* the pass of e.
AboutToRequest(e) == pc = "pass" /\ phase \in {"first", "next"} /\ cur = e

RemoteUpdate(e, i, t) ==
    /\ AboutToRequest(e)
    /\ events < MaxEvents
    /\ t - clock \in Advances
    /\ remote' = [remote EXCEPT ![e] =
                     [k \in DOMAIN remote[e] \cup {i} |->
                         IF k = i THEN [updated_at |-> Restamp(e, i, t)] ELSE remote[e][k]]]
    /\ clock' = t
    /\ events' = events + 1
    /\ UNCHANGED <<db, shop_tz, runs, pc, incremental, cur, phase>>
    /\ UNCHANGED passVars
    /\ UNCHANGED auxVars

RemoteDelete(e, i) ==
    /\ AboutToRequest(e)
    /\ events < MaxEvents
    /\ i \in DOMAIN remote[e]
    /\ remote' = [remote EXCEPT ![e] = [k \in DOMAIN remote[e] \ {i} |-> remote[e][k]]]
    /\ events' = events + 1
    /\ UNCHANGED <<db, shop_tz, clock, runs, pc, incremental, cur, phase>>
    /\ UNCHANGED passVars
    /\ UNCHANGED auxVars

(* ------------------------------ init_db -------------------------------- *)
Tables == <<"metadata", "products", "product_variants", "customers", "orders", "line_items">>

\* The columns of the CREATE TABLE IF NOT EXISTS statements, in order.
TableColumns(t) ==
    CASE t = "metadata" -> <<"key", "value">>
      [] t = "products" ->
           <<"id", "title", "vendor", "product_type", "created_at", "updated_at", "raw_json">>
      [] t = "product_variants" ->
           <<"id", "product_id", "title", "sku", "price", "compare_at_price", "position",
             "option1", "option2", "option3", "created_at", "updated_at", "raw_json">>
      [] t = "customers" ->
           <<"id", "first_name", "last_name", "email", "phone", "created_at", "updated_at",
             "raw_json">>
      [] t = "orders" ->
           <<"id", "order_number", "customer_id", "email", "total_price", "currency",
             "created_at", "updated_at", "financial_status", "fulfillment_status", "raw_json">>
      [] t = "line_items" ->
           <<"id", "order_id", "product_id", "variant_id", "title", "quantity", "price",
             "sku", "raw_json">>

Range(q) == {q[k] : k \in 1..Len(q)}

\* The tables migrate_schema visits, in order; for each it goes through the
\* columns of TableColumns.
MigratedTables == <<"products", "customers", "orders">>

\* The column definition carries PRIMARY KEY.
IsPrimaryKey(t, c) == c = "id"

\* CREATE TABLE IF NOT EXISTS t (...)
CreateTableIfNotExists(tabs, t) ==
    IF t \in DOMAIN tabs THEN tabs
    ELSE [x \in DOMAIN tabs \cup {t} |-> IF x = t THEN Range(TableColumns(t)) ELSE tabs[x]]

RECURSIVE CreateTables(_, _)
CreateTables(tabs, k) ==
    IF k > Len(Tables) THEN tabs
    ELSE CreateTables(CreateTableIfNotExists(tabs, Tables[k]), k + 1)

\* column_exists: PRAGMA table_info(t) lists the column.
column_exists(tabs, t, c) == t \in DOMAIN tabs /\ c \in tabs[t]

\* Variant: the exception of ALTER TABLE is not caught and leaves init_db.
add_column_if_missing_raise(st, t, c) ==
    IF column_exists(st.tables, t, c) THEN st
    ELSE IF IsPrimaryKey(t, c)
         THEN [st EXCEPT !.failed = @ \cup {<<t, c>>}, !.raised = TRUE]
         ELSE [st EXCEPT !.tables[t] = @ \cup {c}, !.added = @ \cup {<<t, c>>}]

\* add_column_if_missing: ALTER TABLE t ADD COLUMN c; SQLite refuses to add a
\* PRIMARY KEY column, the exception is caught and logged.
\* st = [tables, added, failed, raised].
add_column_if_missing(st, t, c) ==
    IF column_exists(st.tables, t, c) THEN st
    ELSE IF IsPrimaryKey(t, c)
         THEN [st EXCEPT !.failed = @ \cup {<<t, c>>}]
         ELSE [st EXCEPT !.tables[t] = @ \cup {c}, !.added = @ \cup {<<t, c>>}]

\* migrate_schema: the calls of add_column_if_missing in program order; the
\* i-th table of MigratedTables, its k-th column.
RECURSIVE migrate_schema(_, _, _)
migrate_schema(st, i, k) ==
    IF st.raised \/ i > Len(MigratedTables) THEN st
    ELSE IF k > Len(TableColumns(MigratedTables[i])) THEN migrate_schema(st, i + 1, 1)
    ELSE migrate_schema(
            add_column_if_missing(st, MigratedTables[i], TableColumns(MigratedTables[i])[k]),
            i, k + 1)

\* init_db(): create the missing tables, commit, migrate.
init_db(sch) ==
    migrate_schema([tables |-> CreateTables(sch.tables, 1), added |-> {}, failed |-> {},
                    raised |-> FALSE], 1, 1)

\* The store after init_db.
SchemaAfter(sch) ==
    [tables |-> init_db(sch).tables, added |-> init_db(sch).added, failed |-> init_db(sch).failed]

(* --------------------------- the orchestrator -------------------------- *)
ResetPass ==
    /\ last_sync' = NoneStr
    /\ params' = NoParams
    /\ all_items' = << >>
    /\ page_count' = 0
    /\ links' = << >>
    /\ req' = NoReq
    /\ items' = NoItems
    /\ max_updated' = NoDt
    /\ saved' = 0
    /\ served' = << >>
    /\ snap' = << >>

\* main(): run_full_sync(incremental = not args.full), once or on the schedule.
StartRun(inc) ==
    /\ pc = "idle"
    /\ ~stop
    /\ runs < MaxRuns
    /\ runs' = runs + 1
    /\ incremental' = inc
    /\ pc' = "init_db"
    /\ UNCHANGED <<db, cur, phase>>
    /\ UNCHANGED envVars
    /\ UNCHANGED passVars
    /\ UNCHANGED auxVars

\* Step 1: init_db() creates missing tables and columns and keeps every row.
InitDb ==
    /\ pc = "init_db"
    /\ IF init_db(schema).raised
       THEN pc' = "failed" /\ UNCHANGED <<cur, phase>>
       ELSE pc' = "pass" /\ cur' = "products" /\ phase' = "begin"
    /\ schema' = SchemaAfter(schema)
    /\ UNCHANGED <<db, runs, incremental>>
    /\ UNCHANGED envVars
    /\ UNCHANGED passVars
    /\ UNCHANGED <<retry, conn, stop, thread, last_run, sideVars>>

\* Variant: the exception is logged and swallowed, the pass counts as returned.
RaiseFromPass_swallow ==
    /\ pc' = pc
    /\ phase' = "returned"

\* The exception of a pass reaches run_full_sync's handler, which logs and re-raises.
RaiseFromPass ==
    /\ pc' = "failed"
    /\ phase' = "raised"

(* ------------------------------ a pass --------------------------------- *)
\* Variant: the filter is built from the stored watermark whatever incremental is.
UpdatedAtMin_stored(inc, ls) ==
    IF ls.form # "none"
    THEN isoformat_for_api(minus_seconds(fromisoformat(ls), LOOKBACK_SECONDS))
    ELSE NoneStr

\* The updated_at_min parameter of a pass.
UpdatedAtMin(inc, ls) ==
    IF inc /\ ls.form # "none"
    THEN isoformat_for_api(minus_seconds(fromisoformat(ls), LOOKBACK_SECONDS))
    ELSE NoneStr

\* Variant: the watermark is moved to the shop's current time when the pass begins.
PassBegin_eager ==
    /\ pc = "pass" /\ phase = "begin"
    /\ last_sync' = db_get_metadata(db, WatermarkKey(cur))
    /\ params' = [limit |-> PAGE_LIMIT,
                  updated_at_min |-> UpdatedAtMin(incremental, db_get_metadata(db, WatermarkKey(cur)))]
    /\ snap' = remote[cur]
    /\ phase' = "first"
    /\ db' = db_set_metadata(db, WatermarkKey(cur), isoformat(Dt(clock + shop_tz, shop_tz)))
    /\ UNCHANGED <<runs, pc, incremental, cur, all_items, page_count, links, req,
                   items, max_updated, saved, served>>
    /\ UNCHANGED envVars
    /\ UNCHANGED auxVars

\* fetch_and_store_*: read the watermark and build params.
PassBegin ==
    /\ pc = "pass" /\ phase = "begin"
    /\ last_sync' = db_get_metadata(db, WatermarkKey(cur))
    /\ params' = [limit |-> PAGE_LIMIT,
                  updated_at_min |-> UpdatedAtMin(incremental, db_get_metadata(db, WatermarkKey(cur)))]
    /\ snap' = remote[cur]
    /\ phase' = "first"
    /\ UNCHANGED <<db, runs, pc, incremental, cur, all_items, page_count, links, req,
                   items, max_updated, saved, served>>
    /\ UNCHANGED envVars
    /\ UNCHANGED auxVars

\* Variant: all_items is assigned the page instead of extended by it.
TakePage_overwrite(resp, r) ==
    /\ req' = r
    /\ all_items' = resp.body
    /\ page_count' = page_count + 1
    /\ links' = parse_link_header(resp.link)
    /\ served' = Append(served, resp.body)
    /\ IF NextLink(parse_link_header(resp.link)) # NoUrl
       THEN phase' = "next" /\ items' = items
       ELSE phase' = "store" /\ items' = [has |-> TRUE, list |-> resp.body]
    /\ UNCHANGED pc

\* fetch_all_rest after a page arrived: extend all_items, parse the Link
\* header, and return all_items when no "next" link is left.
TakePage(resp, r) ==
    /\ req' = r
    /\ all_items' = all_items \o resp.body
    /\ page_count' = page_count + 1
    /\ links' = parse_link_header(resp.link)
    /\ served' = Append(served, resp.body)
    /\ IF NextLink(parse_link_header(resp.link)) # NoUrl
       THEN phase' = "next" /\ items' = items
       ELSE phase' = "store" /\ items' = [has |-> TRUE, list |-> all_items \o resp.body]
    /\ UNCHANGED pc

\* Variant: the failed page is skipped and what was fetched so far is returned.
FetchRaises_partial(r) ==
    /\ req' = r
    /\ phase' = "store"
    /\ items' = [has |-> TRUE, list |-> all_items]
    /\ UNCHANGED <<pc, all_items, page_count, links, served>>

\* request_with_retries ran out of attempts: RuntimeError leaves fetch_all_rest
\* and the pass.
FetchRaises(r) ==
    /\ req' = r
    /\ RaiseFromPass
    /\ UNCHANGED <<all_items, page_count, links, items, served>>

\* fetch_all_rest: the first request, with params.
FetchFirstPage ==
    /\ pc = "pass" /\ phase = "first"
    /\ \E r \in RequestResults :
         LET u == Url(0, params.updated_at_min)
         IN IF r.result = "ok"
            THEN \E n \in PageSizes(cur, u, params.limit) : TakePage(Response(cur, u, n), r)
            ELSE FetchRaises(r)
    /\ UNCHANGED <<db, runs, incremental, cur, last_sync, params, max_updated, saved, snap>>
    /\ UNCHANGED envVars
    /\ UNCHANGED auxVars

\* fetch_all_rest: "while links.get('next')": request the next URL.
FetchNextPage ==
    /\ pc = "pass" /\ phase = "next"
    /\ NextLink(links) # NoUrl
    /\ \E r \in RequestResults :
         LET u == NextLink(links)
         IN IF r.result = "ok"
            THEN \E n \in PageSizes(cur, u, PAGE_LIMIT) : TakePage(Response(cur, u, n), r)
            ELSE FetchRaises(r)
    /\ UNCHANGED <<db, runs, incremental, cur, last_sync, params, max_updated, saved, snap>>
    /\ UNCHANGED envVars
    /\ UNCHANGED auxVars

\* The write loop and conn.commit().
StorePass ==
    /\ pc = "pass" /\ phase = "store"
    /\ LET st == StoreItems(cur, db, items.list)
       IN IF st.ok
          THEN /\ db' = st.db
               /\ max_updated' = st.max_updated
               /\ saved' = st.saved
               /\ phase' = "watermark"
               /\ UNCHANGED pc
          ELSE /\ RaiseFromPass
               /\ UNCHANGED <<db, max_updated, saved>>
    /\ UNCHANGED <<runs, incremental, cur, last_sync, params, all_items, page_count,
                   links, req, items, served, snap>>
    /\ UNCHANGED envVars
    /\ UNCHANGED auxVars

\* "if max_updated: db_set_metadata(...)" and the return of the pass.
SetWatermark ==
    /\ pc = "pass" /\ phase = "watermark"
    /\ db' = AdvanceWatermark(cur, db, max_updated)
    /\ phase' = "returned"
    /\ UNCHANGED <<runs, pc, incremental, cur>>
    /\ UNCHANGED envVars
    /\ UNCHANGED passVars
    /\ UNCHANGED auxVars

\* Variant: orders are synced before customers.
PassAfter_swapped(e) ==
    CASE e = "products" -> "orders"
      [] e = "orders" -> "customers"
      [] e = "customers" -> "export"

\* The pass that run_full_sync calls after pass e ("export" once all three ran).
PassAfter(e) ==
    CASE e = "products" -> "customers"
      [] e = "customers" -> "orders"
      [] e = "orders" -> "export"

\* run_full_sync goes on to its next step once the pass has returned.
NextPass ==
    /\ pc = "pass" /\ phase = "returned"
    /\ IF PassAfter(cur) = "export"
       THEN pc' = "export" /\ cur' = "none" /\ phase' = "none"
       ELSE pc' = "pass" /\ cur' = PassAfter(cur) /\ phase' = "begin"
    /\ ResetPass
    /\ UNCHANGED <<db, runs, incremental>>
    /\ UNCHANGED envVars
    /\ UNCHANGED auxVars

\* Steps 5 and 6 and the spreadsheet push: they only read the store.
Export ==
    /\ pc = "export"
    /\ pc' = "done"
    /\ UNCHANGED <<db, runs, incremental, cur, phase>>
    /\ UNCHANGED envVars
    /\ UNCHANGED passVars
    /\ UNCHANGED auxVars

\* run_full_sync has returned or raised; the process waits for the next run.
EndRun ==
    /\ pc \in {"done", "failed"}
    /\ pc' = "idle"
    /\ cur' = "none"
    /\ phase' = "none"
    /\ ResetPass
    /\ last_run' = [failed |-> pc = "failed",
                    at |-> IF pc = "failed" THEN cur ELSE "none",
                    mark |-> IF pc = "failed" /\ cur \in Entities
                             THEN db_get_metadata(db, WatermarkKey(cur)) ELSE NoneStr]
    /\ UNCHANGED <<db, runs, incremental>>
    /\ UNCHANGED envVars
    /\ UNCHANGED <<retry, conn, schema, stop, thread, sideVars>>

(* --------------------------- specification ----------------------------- *)
Init ==
    /\ db = EmptyDb
    /\ shop_tz \in TzOffsets
    /\ \E bare \in SUBSET Ids :
          remote = [e \in Entities |-> [i \in Ids |->
                       [updated_at |-> IF i \in bare THEN NoneStr ELSE ShopStamp(0)]]]
    /\ clock = 0
    /\ events = 0
    /\ runs = 0
    /\ pc = "idle"
    /\ incremental = TRUE
    /\ cur = "none"
    /\ phase = "none"
    /\ last_sync = NoneStr
    /\ params = NoParams
    /\ all_items = << >>
    /\ page_count = 0
    /\ links = << >>
    /\ req = NoReq
    /\ items = NoItems
    /\ max_updated = NoDt
    /\ saved = 0
    /\ served = << >>
    /\ snap = << >>
    /\ retry = RetryInit
    /\ conn = NoConn
    /\ schema = NoSchema
    /\ stop = FALSE
    /\ thread = "main"
    /\ last_run = NoRun
    /\ SideInit

Next ==
    \/ \E inc \in BOOLEAN : StartRun(inc)
    \/ InitDb
    \/ PassBegin
    \/ FetchFirstPage
    \/ FetchNextPage
    \/ StorePass
    \/ SetWatermark
    \/ NextPass
    \/ Export
    \/ EndRun
    \/ \E e \in Entities, i \in Ids, a \in Advances : RemoteUpdate(e, i, clock + a)
    \/ \E e \in Entities, i \in Ids : RemoteDelete(e, i)

Spec == Init /\ [][Next]_vars

(* ------------- the write loops on arbitrary fetched record sets -------- *)
\* Sequences over S of length at most n.
RECURSIVE SeqsUpTo(_, _)
SeqsUpTo(S, n) ==
    IF n = 0 THEN {<< >>}
    ELSE SeqsUpTo(S, n - 1) \cup
         {Append(q, x) : q \in {r \in SeqsUpTo(S, n - 1) : Len(r) = n - 1}, x \in S}

\* The nested arrays a fetched record of e with id pid may carry; a child may
\* lack its id.
NestedChoices(e, pid) ==
    IF e = "customers" THEN {<< >>}
    ELSE SeqsUpTo({Child(c, GoodPrice) : c \in {NoId, 10 * pid + 1, 10 * pid + 2}}, MaxNested)

\* The records fetch_all_rest may hand to the write loop of e.
FetchedRecords(e, stamp) ==
    UNION {{Item(i, stamp, n) : n \in NestedChoices(e, i)} : i \in Ids \cup {NoId}}

FetchedLists(e, stamp) == SeqsUpTo(FetchedRecords(e, stamp), MaxItems) \ {<< >>}

\* The store is empty and the pass of some entity type holds a fetched list.
InitUpsert ==
    /\ db = EmptyDb
    /\ shop_tz \in TzOffsets
    /\ remote = [e \in Entities |-> << >>]
    /\ clock = 0
    /\ events = 0
    /\ runs = 1
    /\ pc = "pass"
    /\ incremental = TRUE
    /\ cur \in Entities
    /\ phase = "store"
    /\ last_sync = NoneStr
    /\ params = [limit |-> PAGE_LIMIT, updated_at_min |-> NoneStr]
    /\ all_items = << >>
    /\ page_count = 0
    /\ links = << >>
    /\ req = NoReq
    /\ items \in {[has |-> TRUE, list |-> l] : l \in FetchedLists(cur, ShopStamp(0))}
    /\ max_updated = NoDt
    /\ saved = 0
    /\ served = << >>
    /\ snap = << >>
    /\ retry = RetryInit
    /\ conn = NoConn
    /\ schema = NoSchema
    /\ stop = FALSE
    /\ thread = "main"
    /\ last_run = NoRun
    /\ SideInit

\* The next pass is handed the same record set again (nothing changed at the
\* shop and the lookback window covers the records).
SameItemsAgain ==
    /\ pc = "pass" /\ phase = "returned"
    /\ runs < MaxRuns
    /\ runs' = runs + 1
    /\ phase' = "store"
    /\ UNCHANGED <<db, pc, incremental, cur>>
    /\ UNCHANGED envVars
    /\ UNCHANGED passVars
    /\ UNCHANGED auxVars

NextUpsert ==
    \/ StorePass
    \/ SetWatermark
    \/ SameItemsAgain

SpecUpsert == InitUpsert /\ [][NextUpsert]_vars

(* ------------- a stop signal during a run ------------------------------ *)
\* run_full_sync runs in the main thread (single run mode, and the first run
\* of daemon mode) or in a worker thread of the scheduler (the runs the
\* scheduler starts).
Threads == {"main", "worker"}

\* The process is idle; the shop holds its records and does not change.
InitCancel ==
    /\ db = EmptyDb
    /\ shop_tz \in TzOffsets
    /\ \E bare \in SUBSET Ids :
          remote = [e \in Entities |-> [i \in Ids |->
                       [updated_at |-> IF i \in bare THEN NoneStr ELSE ShopStamp(0)]]]
    /\ clock = 0
    /\ events = 0
    /\ runs = 0
    /\ pc = "idle"
    /\ incremental = TRUE
    /\ cur = "none"
    /\ phase = "none"
    /\ last_sync = NoneStr
    /\ params = NoParams
    /\ all_items = << >>
    /\ page_count = 0
    /\ links = << >>
    /\ req = NoReq
    /\ items = NoItems
    /\ max_updated = NoDt
    /\ saved = 0
    /\ served = << >>
    /\ snap = << >>
    /\ retry = RetryInit
    /\ conn = NoConn
    /\ schema = NoSchema
    /\ stop = FALSE
    /\ thread \in Threads
    /\ last_run = NoRun
    /\ SideInit

\* SIGINT arrives while a pass is under way.  Python raises KeyboardInterrupt
\* in the main thread only: when run_full_sync runs there, the exception
\* leaves the pass at once (neither "except RequestException" nor "except
\* Exception" catches it) and the uncommitted transaction is dropped; when it
\* runs in a worker thread, the exception ends scheduler.start() in the main
\* thread and the run is not told.
StopSignal ==
    /\ pc = "pass" /\ phase \in {"first", "next", "store", "watermark"}
    /\ ~stop
    /\ stop' = TRUE
    /\ pc' = IF thread = "main" THEN "interrupted" ELSE pc
    /\ UNCHANGED <<db, runs, incremental, cur, phase>>
    /\ UNCHANGED envVars
    /\ UNCHANGED passVars
    /\ UNCHANGED <<retry, conn, schema, thread, last_run, sideVars>>

NextCancel ==
    \/ \E inc \in BOOLEAN : StartRun(inc)
    \/ InitDb
    \/ PassBegin
    \/ FetchFirstPage
    \/ FetchNextPage
    \/ StorePass
    \/ SetWatermark
    \/ NextPass
    \/ Export
    \/ EndRun
    \/ StopSignal

SpecCancel == InitCancel /\ [][NextCancel]_vars

(* ------------- init_db on stores of earlier versions ------------------- *)
\* Columns a table of an earlier version may lack.
LegacyGaps == {"id", "updated_at"}

\* What an existing store file may hold of one table: the table with its
\* columns but for a subset of LegacyGaps, or no such table.
Absent == {"absent"}
LegacyChoices == (SUBSET LegacyGaps) \cup {Absent}

\* The tables an existing store file may hold: any of the six, each with its
\* columns but for some of LegacyGaps, products possibly with a column of its
\* own that no version of init_db names.
LegacyTables ==
    {[t \in {x \in Range(Tables) : f[x] # Absent} |->
         (Range(TableColumns(t)) \ f[t])
            \cup (IF t = "products" /\ own THEN {"legacy"} ELSE {})] :
       f \in [Range(Tables) -> LegacyChoices], own \in BOOLEAN}

\* An existing store of any earlier version; the process is idle.
InitLegacy ==
    /\ db = EmptyDb
    /\ shop_tz = 0
    /\ remote = [e \in Entities |-> << >>]
    /\ clock = 0
    /\ events = 0
    /\ runs = 0
    /\ pc = "idle"
    /\ incremental = TRUE
    /\ cur = "none"
    /\ phase = "none"
    /\ last_sync = NoneStr
    /\ params = NoParams
    /\ all_items = << >>
    /\ page_count = 0
    /\ links = << >>
    /\ req = NoReq
    /\ items = NoItems
    /\ max_updated = NoDt
    /\ saved = 0
    /\ served = << >>
    /\ snap = << >>
    /\ retry = RetryInit
    /\ conn = NoConn
    /\ schema \in {[tables |-> tabs, added |-> {}, failed |-> {}] : tabs \in LegacyTables}
    /\ stop = FALSE
    /\ thread = "main"
    /\ last_run = NoRun
    /\ SideInit

\* The process is stopped after step 1 of run_full_sync, before any pass.
StopAfterInit ==
    /\ pc = "pass" /\ phase = "begin" /\ cur = "products"
    /\ pc' = "idle"
    /\ cur' = "none"
    /\ phase' = "none"
    /\ UNCHANGED <<db, runs, incremental>>
    /\ UNCHANGED envVars
    /\ UNCHANGED passVars
    /\ UNCHANGED auxVars

NextLegacy ==
    \/ \E inc \in BOOLEAN : StartRun(inc)
    \/ InitDb
    \/ StopAfterInit

SpecLegacy == InitLegacy /\ [][NextLegacy]_vars

(* ------------- the write loop statement by statement ------------------- *)
\* How the loop ends when it is left at its current statement without commit:
\* the connection is dropped and with it the open transaction.
Dropped(fault) == [NoConn EXCEPT !.k = conn.k, !.j = conn.j, !.fault = fault]

\* The record the loop is at.
CurRecord == items.list[conn.k]
InLoop == pc = "pass" /\ phase = "store" /\ conn.open /\ conn.k <= Len(items.list)
AtParent == InLoop /\ conn.j = 0
AtChild == InLoop /\ conn.j >= 1 /\ cur # "customers" /\ conn.j <= Len(CurRecord.nested)
AtRecordEnd == InLoop /\ conn.j >= 1 /\ (cur = "customers" \/ conn.j > Len(CurRecord.nested))

\* conn = sqlite3.connect(DB_FILE); cur = conn.cursor(); counters reset.
Connect ==
    /\ pc = "pass" /\ phase = "store"
    /\ ~conn.open /\ conn.fault = "none"
    /\ conn' = [NoConn EXCEPT !.open = TRUE, !.db = db, !.k = 1]
    /\ max_updated' = NoDt
    /\ saved' = 0
    /\ UNCHANGED <<db, runs, pc, incremental, cur, phase, last_sync, params, all_items,
                   page_count, links, req, items, served, snap>>
    /\ UNCHANGED envVars
    /\ UNCHANGED <<retry, schema, stop, thread, last_run, sideVars>>

\* Variant: every INSERT is committed at once (autocommit connection).
WriteParent_autocommit ==
    /\ AtParent
    /\ IF ParentKeyError(cur, CurRecord)
       THEN /\ conn' = Dropped("KeyError")
            /\ RaiseFromPass
            /\ UNCHANGED <<db, saved>>
       ELSE /\ conn' = [conn EXCEPT !.db = InsertParent(cur, conn.db, CurRecord), !.j = 1]
            /\ db' = InsertParent(cur, conn.db, CurRecord)
            /\ saved' = saved + 1
            /\ UNCHANGED <<pc, phase>>
    /\ UNCHANGED <<runs, incremental, cur, last_sync, params, all_items,
                   page_count, links, req, items, max_updated, served, snap>>
    /\ UNCHANGED envVars
    /\ UNCHANGED <<retry, schema, stop, thread, last_run, sideVars>>

\* "pid = p['id']" and the INSERT OR REPLACE of the parent row, inside the
\* connection's open transaction.
WriteParent ==
    /\ AtParent
    /\ IF ParentKeyError(cur, CurRecord)
       THEN /\ conn' = Dropped("KeyError")
            /\ RaiseFromPass
            /\ UNCHANGED saved
       ELSE /\ conn' = [conn EXCEPT !.db = InsertParent(cur, conn.db, CurRecord), !.j = 1]
            /\ saved' = saved + 1
            /\ UNCHANGED <<pc, phase>>
    /\ UNCHANGED <<db, runs, incremental, cur, last_sync, params, all_items,
                   page_count, links, req, items, max_updated, served, snap>>
    /\ UNCHANGED envVars
    /\ UNCHANGED <<retry, schema, stop, thread, last_run, sideVars>>

\* "vid = v['id']" / "li_id = li.get('id')" and the INSERT OR REPLACE of one child row.
WriteChild ==
    /\ AtChild
    /\ IF ChildKeyError(cur, CurRecord.nested[conn.j])
       THEN /\ conn' = Dropped("KeyError")
            /\ RaiseFromPass
       ELSE /\ conn' = [conn EXCEPT
                          !.db = InsertChild(cur, conn.db, CurRecord.id, CurRecord.nested[conn.j]),
                          !.j = @ + 1]
            /\ UNCHANGED <<pc, phase>>
    /\ UNCHANGED <<db, runs, incremental, cur, last_sync, params, all_items,
                   page_count, links, req, items, max_updated, saved, served, snap>>
    /\ UNCHANGED envVars
    /\ UNCHANGED <<retry, schema, stop, thread, last_run, sideVars>>

\* Variant: conn.commit() is inside the loop, each record is committed as the
\* loop leaves it.
FinishRecord_commit ==
    /\ AtRecordEnd
    /\ max_updated' = UpdateMax(max_updated, CurRecord.updated_at)
    /\ conn' = [conn EXCEPT !.k = @ + 1, !.j = 0]
    /\ db' = conn.db
    /\ UNCHANGED <<runs, pc, incremental, cur, phase, last_sync, params, all_items,
                   page_count, links, req, items, saved, served, snap>>
    /\ UNCHANGED envVars
    /\ UNCHANGED <<retry, schema, stop, thread, last_run, sideVars>>

\* The end of one iteration: "if updated_at: ... max_updated = dt".
FinishRecord ==
    /\ AtRecordEnd
    /\ max_updated' = UpdateMax(max_updated, CurRecord.updated_at)
    /\ conn' = [conn EXCEPT !.k = @ + 1, !.j = 0]
    /\ UNCHANGED <<db, runs, pc, incremental, cur, phase, last_sync, params, all_items,
                   page_count, links, req, items, saved, served, snap>>
    /\ UNCHANGED envVars
    /\ UNCHANGED <<retry, schema, stop, thread, last_run, sideVars>>

\* Variant: the connection is closed without conn.commit().
Commit_forgotten ==
    /\ pc = "pass" /\ phase = "store" /\ conn.open
    /\ conn.k > Len(items.list)
    /\ conn' = NoConn
    /\ phase' = "watermark"
    /\ UNCHANGED <<db, runs, pc, incremental, cur, last_sync, params, all_items,
                   page_count, links, req, items, max_updated, saved, served, snap>>
    /\ UNCHANGED envVars
    /\ UNCHANGED <<retry, schema, stop, thread, last_run, sideVars>>

\* conn.commit(); conn.close(): the transaction becomes the store's content.
Commit ==
    /\ pc = "pass" /\ phase = "store" /\ conn.open
    /\ conn.k > Len(items.list)
    /\ db' = conn.db
    /\ conn' = NoConn
    /\ phase' = "watermark"
    /\ UNCHANGED <<runs, pc, incremental, cur, last_sync, params, all_items,
                   page_count, links, req, items, max_updated, saved, served, snap>>
    /\ UNCHANGED envVars
    /\ UNCHANGED <<retry, schema, stop, thread, last_run, sideVars>>

\* cur.execute raises sqlite3.Error on the INSERT the loop is at (the store is
\* locked, the disk is full, the value does not fit the column): nothing
\* catches it, it leaves the pass.
ExecuteFails ==
    /\ \/ AtParent /\ ~ParentKeyError(cur, CurRecord)
       \/ AtChild /\ ~ChildKeyError(cur, CurRecord.nested[conn.j])
    /\ conn' = Dropped("sqlite3.Error")
    /\ RaiseFromPass
    /\ UNCHANGED <<db, runs, incremental, cur, last_sync, params, all_items,
                   page_count, links, req, items, max_updated, saved, served, snap>>
    /\ UNCHANGED envVars
    /\ UNCHANGED <<retry, schema, stop, thread, last_run, sideVars>>

\* The process dies (power loss, kill) at any point of the write loop or
\* before the watermark is written: the store keeps what was committed.
Crash ==
    /\ pc = "pass" /\ phase \in {"store", "watermark"}
    /\ pc' = "crashed"
    /\ conn' = IF conn.open THEN Dropped("crash") ELSE conn
    /\ UNCHANGED <<db, runs, incremental, cur, phase, last_sync, params, all_items,
                   page_count, links, req, items, max_updated, saved, served, snap>>
    /\ UNCHANGED envVars
    /\ UNCHANGED <<retry, schema, stop, thread, last_run, sideVars>>

\* The list the next pass fetches when, in between, the shop has added one
\* child (a variant, a line item) to the k-th record.
Grown(list, k) ==
    [list EXCEPT ![k].nested = Append(@, Child(10 * list[k].id + MaxNested + 1, GoodPrice))]

\* The next pass of the same entity type has fetched: the records of the last
\* pass, one of them with a child more (customers: the same records).
Refetch ==
    /\ pc = "pass" /\ phase = "returned"
    /\ runs < MaxRuns
    /\ runs' = runs + 1
    /\ phase' = "store"
    /\ IF cur = "customers" THEN items' = items
       ELSE \E k \in 1..Len(items.list) :
               items' = [items EXCEPT !.list = Grown(items.list, k)]
    /\ UNCHANGED <<db, pc, incremental, cur, last_sync, params, all_items,
                   page_count, links, req, max_updated, saved, served, snap>>
    /\ UNCHANGED envVars
    /\ UNCHANGED auxVars

NextWrite ==
    \/ Connect
    \/ WriteParent
    \/ WriteChild
    \/ FinishRecord
    \/ Commit
    \/ SetWatermark
    \/ ExecuteFails
    \/ Crash
    \/ Refetch

SpecWrite == InitUpsert /\ [][NextWrite]_vars

(* ------------- the orders write loop on records with price fields ------ *)
\* The line_items arrays of order pid: the k-th line item has id 10 * pid + k
\* and any price field.
RECURSIVE PricedNested(_, _)
PricedNested(pid, n) ==
    IF n = 0 THEN {<< >>}
    ELSE PricedNested(pid, n - 1) \cup
         {Append(q, Child(10 * pid + n, p)) :
             q \in {r \in PricedNested(pid, n - 1) : Len(r) = n - 1}, p \in PriceFields}

\* Order i with any total_price field and any such line items.
PricedOrders(i, stamp) ==
    {[Item(i, stamp, n) EXCEPT !.total_price = p] :
        p \in PriceFields, n \in PricedNested(i, MaxNested)}

\* Fetched lists of orders 1..n, for n up to MaxItems.
RECURSIVE PricedLists(_, _)
PricedLists(n, stamp) ==
    IF n = 0 THEN {<< >>}
    ELSE PricedLists(n - 1, stamp) \cup
         {Append(q, o) :
             q \in {r \in PricedLists(n - 1, stamp) : Len(r) = n - 1},
             o \in PricedOrders(n, stamp)}

\* The store is empty and the orders pass holds a fetched list.
InitPrices ==
    /\ db = EmptyDb
    /\ shop_tz \in TzOffsets
    /\ remote = [e \in Entities |-> << >>]
    /\ clock = 0
    /\ events = 0
    /\ runs = 1
    /\ pc = "pass"
    /\ incremental = TRUE
    /\ cur = "orders"
    /\ phase = "store"
    /\ last_sync = NoneStr
    /\ params = [limit |-> PAGE_LIMIT, updated_at_min |-> NoneStr]
    /\ all_items = << >>
    /\ page_count = 0
    /\ links = << >>
    /\ req = NoReq
    /\ items \in {[has |-> TRUE, list |-> l] : l \in PricedLists(MaxItems, ShopStamp(0)) \ {<< >>}}
    /\ max_updated = NoDt
    /\ saved = 0
    /\ served = << >>
    /\ snap = << >>
    /\ retry = RetryInit
    /\ conn = NoConn
    /\ schema = NoSchema
    /\ stop = FALSE
    /\ thread = "main"
    /\ last_run = NoRun
    /\ SideInit

NextPrices ==
    \/ StorePass
    \/ SetWatermark

SpecPrices == InitPrices /\ [][NextPrices]_vars

(* ------------- one logical request, attempt by attempt ----------------- *)
\* A pass is about to issue its first request.
InitFetch ==
    /\ db = EmptyDb
    /\ shop_tz \in TzOffsets
    /\ remote = [e \in Entities |-> << >>]
    /\ clock = 0
    /\ events = 0
    /\ runs = 1
    /\ pc = "pass"
    /\ incremental \in BOOLEAN
    /\ cur \in Entities
    /\ phase = "first"
    /\ last_sync = NoneStr
    /\ params = [limit |-> PAGE_LIMIT, updated_at_min |-> NoneStr]
    /\ all_items = << >>
    /\ page_count = 0
    /\ links = << >>
    /\ req = NoReq
    /\ items = NoItems
    /\ max_updated = NoDt
    /\ saved = 0
    /\ served = << >>
    /\ snap = << >>
    /\ retry = RetryInit
    /\ conn = NoConn
    /\ schema = NoSchema
    /\ stop = FALSE
    /\ thread = "main"
    /\ last_run = NoRun
    /\ SideInit

\* The state of the retry loop with the status the last attempt got.
WithStatus(st, status) ==
    [st EXCEPT !.last = [kind |-> @.kind, retry_after |-> @.retry_after, status |-> status]]

\* One HTTP attempt of request_with_retries and what the remote gives it.
Attempt(status, retry_after) ==
    /\ pc = "pass" /\ phase \in {"first", "next"}
    /\ retry.result = "pending"
    /\ retry' = WithStatus(RetryStep(retry, OutcomeOf(status), retry_after), status)
    /\ UNCHANGED <<db, runs, pc, incremental, cur, phase, last_sync, params, all_items,
                   page_count, links, req, items, max_updated, saved, served, snap>>
    /\ UNCHANGED envVars
    /\ UNCHANGED <<conn, schema, stop, thread, last_run, sideVars>>

NextFetch ==
    \E status \in Statuses, h \in RetryAfterHeaders :
        Attempt(status, IF status = 429 THEN h ELSE NoRetryAfter)

SpecFetch == InitFetch /\ [][NextFetch]_vars

(* ------------- daemon mode: the first run and the scheduled runs ------- *)
\* main() with --daemon: "run_full_sync(...)" is called once in the main
\* thread, outside any try; an exception it raises leaves main().
FirstRun(inc) ==
    /\ runs = 0
    /\ thread = "main"
    /\ StartRun(inc)

\* The first run has raised: the exception leaves main() and the process
\* ends before scheduler.start() is reached.
MainRaises ==
    /\ pc = "failed"
    /\ thread = "main"
    /\ pc' = "exited"
    /\ UNCHANGED <<db, runs, incremental, cur, phase>>
    /\ UNCHANGED envVars
    /\ UNCHANGED passVars
    /\ UNCHANGED auxVars

\* The first run has returned, or a job of the scheduler has ended: the
\* scheduler's executor logs the exception of a job and keeps the job.
RunEnds ==
    /\ pc = "done" \/ thread = "worker"
    /\ EndRun

\* scheduler.start(): from now on the job runs in a worker thread.
SchedulerStart ==
    /\ pc = "idle"
    /\ thread = "main"
    /\ runs >= 1
    /\ thread' = "worker"
    /\ UNCHANGED <<db, runs, pc, incremental, cur, phase>>
    /\ UNCHANGED envVars
    /\ UNCHANGED passVars
    /\ UNCHANGED <<retry, conn, schema, stop, last_run, sideVars>>

\* The interval trigger fires: the job calls run_full_sync with the
\* incremental flag main() computed once.
ScheduledRun ==
    /\ thread = "worker"
    /\ StartRun(incremental)

NextDaemon ==
    \/ \E inc \in BOOLEAN : FirstRun(inc)
    \/ MainRaises
    \/ RunEnds
    \/ SchedulerStart
    \/ ScheduledRun
    \/ InitDb
    \/ PassBegin
    \/ FetchFirstPage
    \/ FetchNextPage
    \/ StorePass
    \/ SetWatermark
    \/ NextPass
    \/ Export

\* The process keeps running and the trigger keeps firing: an exception
\* that has been raised propagates, a run that has ended is followed by
\* scheduler.start() and by the next firing of the interval trigger.
SpecDaemon ==
    /\ Init /\ [][NextDaemon]_vars
    /\ WF_vars(MainRaises) /\ WF_vars(RunEnds)
    /\ WF_vars(SchedulerStart) /\ WF_vars(ScheduledRun)

(* ------------- passes over records with children and customers -------- *)
\* The same entity type's pass of a later invocation has fetched a list of L
\* (the earlier pass has returned, or has raised and ended its invocation).
FetchedAgain(L) ==
    /\ \/ pc = "pass" /\ phase = "returned"
       \/ pc = "failed" /\ phase = "raised"
    /\ runs < MaxRuns
    /\ runs' = runs + 1
    /\ pc' = "pass"
    /\ phase' = "store"
    /\ items' \in {[has |-> TRUE, list |-> l] : l \in L}
    /\ last_sync' = db_get_metadata(db, WatermarkKey(cur))
    /\ UNCHANGED <<db, incremental, cur, params, all_items, page_count, links, req,
                   max_updated, saved, served, snap>>
    /\ UNCHANGED envVars
    /\ UNCHANGED auxVars

\* The nested arrays record pid may carry: its first n children for any n up
\* to MaxNested, or one child that lacks its id.
LinkedNested(pid) ==
    {[k \in 1..n |-> Child(10 * pid + k, GoodPrice)] : n \in 0..MaxNested}
        \cup {<<Child(NoId, GoodPrice)>>}

\* Record i of e with any such children and, for an order, any customer field.
LinkedRecords(e, i) ==
    {[Item(i, TsString(0, 0, "Z"), n) EXCEPT !.customer = c] :
        n \in LinkedNested(i), c \in (IF e = "orders" THEN Customers ELSE {NoCustomer})}

\* Fetched lists of the records 1..n of e, for n from 0 up to m: from one
\* pass to the next a record or a child may have appeared or disappeared.
RECURSIVE LinkedLists(_, _)
LinkedLists(e, m) ==
    IF m = 0 THEN {<< >>}
    ELSE LinkedLists(e, m - 1) \cup
         {Append(q, r) :
             q \in {l \in LinkedLists(e, m - 1) : Len(l) = m - 1}, r \in LinkedRecords(e, m)}

\* The store is empty and the products or the orders pass holds a fetched list.
InitLinks ==
    /\ db = EmptyDb
    /\ shop_tz = 0
    /\ remote = [e \in Entities |-> << >>]
    /\ clock = 0
    /\ events = 0
    /\ runs = 1
    /\ pc = "pass"
    /\ incremental = TRUE
    /\ cur \in {"products", "orders"}
    /\ phase = "store"
    /\ last_sync = NoneStr
    /\ params = [limit |-> PAGE_LIMIT, updated_at_min |-> NoneStr]
    /\ all_items = << >>
    /\ page_count = 0
    /\ links = << >>
    /\ req = NoReq
    /\ items \in {[has |-> TRUE, list |-> l] : l \in LinkedLists(cur, MaxItems)}
    /\ max_updated = NoDt
    /\ saved = 0
    /\ served = << >>
    /\ snap = << >>
    /\ retry = RetryInit
    /\ conn = NoConn
    /\ schema = NoSchema
    /\ stop = FALSE
    /\ thread = "main"
    /\ last_run = NoRun
    /\ SideInit

NextLinks ==
    \/ StorePass
    \/ SetWatermark
    \/ FetchedAgain(LinkedLists(cur, MaxItems))

SpecLinks == InitLinks /\ [][NextLinks]_vars

(* ------------- passes over records with any updated_at ---------------- *)
\* The updated_at fields a fetched record may carry: two instants, written in
\* UTC and with an offset, no such field, and a string that is no timestamp.
BatchStamps ==
    {TsString(0, 0, "Z"), TsString(TickSeconds - 18000, 0 - 18000, "offset"), NoneStr, BadStr}

\* The lists fetch_all_rest may hand to the write loop of e: any records of
\* Ids, the same id possibly more than once.
BatchLists(e) ==
    SeqsUpTo({Item(i, u, NestedOf(e, i)) : i \in Ids, u \in BatchStamps}, MaxItems)

\* The store is empty and the pass of some entity type holds a fetched list.
InitBatch ==
    /\ db = EmptyDb
    /\ shop_tz = 0
    /\ remote = [e \in Entities |-> << >>]
    /\ clock = 0
    /\ events = 0
    /\ runs = 1
    /\ pc = "pass"
    /\ incremental = TRUE
    /\ cur \in Entities
    /\ phase = "store"
    /\ last_sync = NoneStr
    /\ params = [limit |-> PAGE_LIMIT, updated_at_min |-> NoneStr]
    /\ all_items = << >>
    /\ page_count = 0
    /\ links = << >>
    /\ req = NoReq
    /\ items \in {[has |-> TRUE, list |-> l] : l \in BatchLists(cur)}
    /\ max_updated = NoDt
    /\ saved = 0
    /\ served = << >>
    /\ snap = << >>
    /\ retry = RetryInit
    /\ conn = NoConn
    /\ schema = NoSchema
    /\ stop = FALSE
    /\ thread = "main"
    /\ last_run = NoRun
    /\ SideInit

NextBatch ==
    \/ StorePass
    \/ SetWatermark
    \/ FetchedAgain(BatchLists(cur))

SpecBatch == InitBatch /\ [][NextBatch]_vars

(* ------------- daemon mode: the executor of the scheduler -------------- *)
\* add_job(...) is called without max_instances: the job takes the
\* scheduler's default, one running instance at a time.
max_instances == 1

\* The first run, made by main() itself, has returned.
FirstRunReturns ==
    /\ thread = "main"
    /\ pc = "done"
    /\ EndRun

\* Variant: the executor starts the job whatever is running already.
SubmitJob_always ==
    /\ thread = "worker"
    /\ runs < 1 + MaxJobs
    /\ executor' = [executor EXCEPT !.instances = @ + 1]
    /\ runs' = runs + 1
    /\ pc' = IF pc = "idle" THEN "init_db" ELSE pc
    /\ UNCHANGED <<db, incremental, cur, phase, wire, down, web>>
    /\ UNCHANGED envVars
    /\ UNCHANGED passVars
    /\ UNCHANGED <<retry, conn, schema, stop, thread, last_run>>

\* The interval trigger fires and fewer than max_instances instances of the
\* job are running: the executor hands the job to a thread of its pool, which
\* calls run_full_sync.  pc is the position of the instance started first.
SubmitJob ==
    /\ thread = "worker"
    /\ executor.instances < max_instances
    /\ runs < 1 + MaxJobs
    /\ executor' = [executor EXCEPT !.instances = @ + 1]
    /\ runs' = runs + 1
    /\ pc' = IF pc = "idle" THEN "init_db" ELSE pc
    /\ UNCHANGED <<db, incremental, cur, phase, wire, down, web>>
    /\ UNCHANGED envVars
    /\ UNCHANGED passVars
    /\ UNCHANGED <<retry, conn, schema, stop, thread, last_run>>

\* The interval trigger fires while max_instances instances are running: the
\* run time is skipped with a warning.
SkipRun ==
    /\ thread = "worker"
    /\ executor.instances >= max_instances
    /\ executor.skipped < MaxSkipped
    /\ executor' = [executor EXCEPT !.skipped = @ + 1]
    /\ UNCHANGED <<db, runs, pc, incremental, cur, phase, wire, down, web>>
    /\ UNCHANGED envVars
    /\ UNCHANGED passVars
    /\ UNCHANGED <<retry, conn, schema, stop, thread, last_run>>

\* run_full_sync has returned or raised in the pool thread: the executor logs
\* the outcome and counts the instance as ended.
JobEnds ==
    /\ thread = "worker"
    /\ pc \in {"done", "failed"}
    /\ executor.instances >= 1
    /\ executor' = [executor EXCEPT !.instances = @ - 1]
    /\ pc' = "idle"
    /\ cur' = "none"
    /\ phase' = "none"
    /\ ResetPass
    /\ last_run' = [failed |-> pc = "failed",
                    at |-> IF pc = "failed" THEN cur ELSE "none",
                    mark |-> IF pc = "failed" /\ cur \in Entities
                             THEN db_get_metadata(db, WatermarkKey(cur)) ELSE NoneStr]
    /\ UNCHANGED <<db, runs, incremental, wire, down, web>>
    /\ UNCHANGED envVars
    /\ UNCHANGED <<retry, conn, schema, stop, thread>>

NextSchedule ==
    \/ \E inc \in BOOLEAN : FirstRun(inc)
    \/ MainRaises
    \/ FirstRunReturns
    \/ SchedulerStart
    \/ SubmitJob
    \/ SkipRun
    \/ JobEnds
    \/ InitDb
    \/ PassBegin
    \/ FetchFirstPage
    \/ FetchNextPage
    \/ StorePass
    \/ SetWatermark
    \/ NextPass
    \/ Export

SpecSchedule == Init /\ [][NextSchedule]_vars

(* ------------- fetch_all_rest, attempt by attempt, page by page -------- *)
\* The params a caller hands to fetch_all_rest: without "limit", or with a
\* limit below, at or above the page size ceiling of the API.
NoLimit == 0
CallerLimits == {NoLimit, 1, PAGE_LIMIT, 2 * PAGE_LIMIT}

\* params.setdefault("limit", 250): a limit the caller gave is left as it is.
setdefault_limit(p) == IF p.limit = NoLimit THEN [p EXCEPT !.limit = PAGE_LIMIT] ELSE p

\* The URL of page k of the feed; page 1 is what the endpoint itself answers.
PageUrl(k) == Url(k - 1, NoneStr)
PageOf(u) == u.after + 1

\* What the remote answers a request for page k with: one record, and a
\* "next" link to page remote.next[k] unless that is 0.  remote.next is any
\* function: the links may end, or lead back to a page served before.
Chains == [1..MaxPages -> 0..MaxPages]
ChainResponse(e, k) ==
    [body |-> <<Item(k, TsString(0, 0, "Z"), NestedOf(e, k))>>,
     link |-> IF remote.next[k] # 0
              THEN <<[url |-> PageUrl(remote.next[k]), rel |-> "next", has_rel |-> TRUE]>>
              ELSE << >>]

\* The statuses an attempt may get here, and the Retry-After of a 429.
PageStatuses == {NoStatus, 200, 429, 500}
PageRetryAfters == {NoRetryAfter, RetryAfter(3)}

\* Variant: the attempt counter and the backoff value are kept from the
\* previous page request.
BeginRequest_carry(st) ==
    IF st.result = "pending" THEN st ELSE [st EXCEPT !.result = "pending"]

\* request_with_retries is entered: "sleep_seconds = 1" and a new loop over
\* range(max_retries).  st is the state the previous call ended in, or the
\* state of the call under way.
BeginRequest(st) == IF st.result = "pending" THEN st ELSE RetryInit

\* Variant: a "next" link that leads to a URL requested before ends the loop.
FollowLinks_once(ls, w) ==
    IF NextLink(ls) # NoUrl /\ \E i \in 1..Len(w) : w[i].url = NextLink(ls)
    THEN << >> ELSE ls

\* "while links.get('next')": the links are followed as they are, with no
\* look at the requests issued so far.
FollowLinks(ls, w) == ls

\* One HTTP attempt for URL u, sent with limit lim, and what follows it in
\* fetch_all_rest: the page is taken when request_with_retries returns, the
\* exception leaves fetch_all_rest and the pass when it raises.
PageAttempt(u, lim, status, retry_after) ==
    LET st == WithStatus(RetryStep(BeginRequest(retry), OutcomeOf(status), retry_after), status)
        r == [result |-> st.result, retried |-> st.attempt > 1]
        w == Append(wire, [url |-> u, limit |-> lim, request |-> page_count + 1])
        resp == ChainResponse(cur, PageOf(u))
    IN /\ retry' = st
       /\ wire' = w
       /\ IF st.result = "ok"
          THEN TakePage([resp EXCEPT !.link =
                            IF FollowLinks(parse_link_header(resp.link), w) = << >>
                            THEN << >> ELSE resp.link], r)
          ELSE IF st.result = "pending"
               THEN UNCHANGED <<pc, phase, req, all_items, page_count, links, items, served>>
               ELSE FetchRaises(r)

\* fetch_all_rest: an attempt of the first request, sent with params.
AttemptFirstPage ==
    /\ pc = "pass" /\ phase = "first"
    /\ \E status \in PageStatuses, h \in PageRetryAfters :
          PageAttempt(PageUrl(1), setdefault_limit(params).limit, status,
                      IF status = 429 THEN h ELSE NoRetryAfter)
    /\ UNCHANGED <<db, runs, incremental, cur, last_sync, params, max_updated, saved, snap>>
    /\ UNCHANGED envVars
    /\ UNCHANGED <<conn, schema, stop, thread, last_run, executor, down, web>>

\* fetch_all_rest: an attempt of the request of a "next" URL, sent without
\* params.  The model stops following links after MaxFetched pages.
AttemptNextPage ==
    /\ pc = "pass" /\ phase = "next"
    /\ NextLink(links) # NoUrl
    /\ page_count < MaxFetched
    /\ \E status \in PageStatuses, h \in PageRetryAfters :
          PageAttempt(NextLink(links), NoLimit, status,
                      IF status = 429 THEN h ELSE NoRetryAfter)
    /\ UNCHANGED <<db, runs, incremental, cur, last_sync, params, max_updated, saved, snap>>
    /\ UNCHANGED envVars
    /\ UNCHANGED <<conn, schema, stop, thread, last_run, executor, down, web>>

\* A pass has called fetch_all_rest with some params; the feed is any chain
\* of pages.
InitPages ==
    /\ db = EmptyDb
    /\ shop_tz = 0
    /\ remote \in {[next |-> f] : f \in Chains}
    /\ clock = 0
    /\ events = 0
    /\ runs = 1
    /\ pc = "pass"
    /\ incremental = TRUE
    /\ cur \in Entities
    /\ phase = "first"
    /\ last_sync = NoneStr
    /\ params \in {[limit |-> l, updated_at_min |-> NoneStr] : l \in CallerLimits}
    /\ all_items = << >>
    /\ page_count = 0
    /\ links = << >>
    /\ req = NoReq
    /\ items = NoItems
    /\ max_updated = NoDt
    /\ saved = 0
    /\ served = << >>
    /\ snap = << >>
    /\ retry = RetryInit
    /\ conn = NoConn
    /\ schema = NoSchema
    /\ stop = FALSE
    /\ thread = "main"
    /\ last_run = NoRun
    /\ SideInit

NextPages ==
    \/ AttemptFirstPage
    \/ AttemptNextPage
    \/ StorePass
    \/ SetWatermark

SpecPages == InitPages /\ [][NextPages]_vars

\* A products pass has called fetch_all_rest with its own params.
InitChain ==
    /\ InitPages
    /\ cur = "products"
    /\ params.limit = PAGE_LIMIT

\* The fetch runs on: every request is answered or times out, so an attempt
\* that can be made is made, and a list that was fetched is stored.
SpecChain ==
    /\ InitChain /\ [][NextPages]_vars
    /\ WF_vars(AttemptFirstPage) /\ WF_vars(AttemptNextPage)
    /\ WF_vars(StorePass) /\ WF_vars(SetWatermark)

(* ------------- the pass after a crash ---------------------------------- *)
\* The records of list the shop returns under the filter min (None: all).
Refiltered(list, min) ==
    LET Selected(r) ==
           \/ min.form = "none"
           \/ Parsable(r.updated_at) /\ StrInstant(r.updated_at) >= StrInstant(min)
    IN SelectSeq(list, Selected)

\* The process is started again after a crash and the pass of the same
\* entity type has fetched: it read the watermark the store holds, and the
\* shop, where nothing has changed, returned the records inside the filter.
\* The log of the crashed invocation ends inside that pass; committed: it
\* had reached conn.commit().
Restart ==
    /\ pc = "crashed"
    /\ runs < MaxRuns
    /\ runs' = runs + 1
    /\ pc' = "pass"
    /\ phase' = "store"
    /\ conn' = NoConn
    /\ last_sync' = db_get_metadata(db, WatermarkKey(cur))
    /\ items' = [items EXCEPT !.list =
                    Refiltered(@, UpdatedAtMin(incremental, db_get_metadata(db, WatermarkKey(cur))))]
    /\ max_updated' = NoDt
    /\ saved' = 0
    /\ last_run' = [failed |-> TRUE, at |-> cur,
                    mark |-> db_get_metadata(db, WatermarkKey(cur)),
                    committed |-> phase = "watermark"]
    /\ UNCHANGED <<db, incremental, cur, params, all_items, page_count, links, req,
                   served, snap>>
    /\ UNCHANGED envVars
    /\ UNCHANGED <<retry, schema, stop, thread, sideVars>>

NextRecover ==
    \/ Connect
    \/ WriteParent
    \/ WriteChild
    \/ FinishRecord
    \/ Commit
    \/ SetWatermark
    \/ ExecuteFails
    \/ Crash
    \/ Refetch
    \/ Restart

SpecRecover == InitUpsert /\ [][NextRecover]_vars

(* ------------- the downstream steps of an invocation ------------------- *)
\* What a downstream step can end with.  export_all_to_csv: every export
\* function catches and logs its own exceptions ("failed": at least one did).
\* analytics_reports has no handler ("raised": the exception leaves it).
\* The spreadsheet push: switched off by --no-sheets ("disabled"), no client
\* ("no client": init_google_sheets caught its exception and returned None),
\* or sync_all_data_to_sheets, which catches and logs per sheet ("failed").
CsvOutcomes == {"ok", "failed"}
AnalyticsOutcomes == {"ok", "raised"}
SheetsOutcomes == {"ok", "failed", "no client", "disabled"}

\* The entry a step of invocation r leaves in the log.
Ran(r, step, outcome) == [run |-> r, step |-> step, outcome |-> outcome]

\* Variant: an exception inside an export function leaves export_all_to_csv
\* and run_full_sync.
ExportCsv_raise ==
    /\ pc = "export"
    /\ \E o \in CsvOutcomes :
          /\ down' = Append(down, Ran(runs, "csv", o))
          /\ pc' = IF o = "ok" THEN "analytics" ELSE "failed"
    /\ UNCHANGED <<db, runs, incremental, cur, phase, executor, wire, web>>
    /\ UNCHANGED envVars
    /\ UNCHANGED passVars
    /\ UNCHANGED <<retry, conn, schema, stop, thread, last_run>>

\* Step 5: export_all_to_csv() reads the five tables and writes the files.
ExportCsv ==
    /\ pc = "export"
    /\ \E o \in CsvOutcomes : down' = Append(down, Ran(runs, "csv", o))
    /\ pc' = "analytics"
    /\ UNCHANGED <<db, runs, incremental, cur, phase, executor, wire, web>>
    /\ UNCHANGED envVars
    /\ UNCHANGED passVars
    /\ UNCHANGED <<retry, conn, schema, stop, thread, last_run>>

\* Step 6: analytics_reports() reads orders and line_items; an exception it
\* raises reaches run_full_sync's handler, which logs and re-raises.
Analytics ==
    /\ pc = "analytics"
    /\ \E o \in AnalyticsOutcomes :
          /\ down' = Append(down, Ran(runs, "analytics", o))
          /\ pc' = IF o = "ok" THEN "sheets" ELSE "failed"
    /\ UNCHANGED <<db, runs, incremental, cur, phase, executor, wire, web>>
    /\ UNCHANGED envVars
    /\ UNCHANGED passVars
    /\ UNCHANGED <<retry, conn, schema, stop, thread, last_run>>

\* "if push_to_sheets: gc = init_google_sheets(); if gc: sync_all_data_to_sheets"
\* and the return of run_full_sync.
PushToSheets ==
    /\ pc = "sheets"
    /\ \E o \in SheetsOutcomes : down' = Append(down, Ran(runs, "sheets", o))
    /\ pc' = "done"
    /\ UNCHANGED <<db, runs, incremental, cur, phase, executor, wire, web>>
    /\ UNCHANGED envVars
    /\ UNCHANGED passVars
    /\ UNCHANGED <<retry, conn, schema, stop, thread, last_run>>

NextDownstream ==
    \/ \E inc \in BOOLEAN : StartRun(inc)
    \/ InitDb
    \/ PassBegin
    \/ FetchFirstPage
    \/ FetchNextPage
    \/ StorePass
    \/ SetWatermark
    \/ NextPass
    \/ ExportCsv
    \/ Analytics
    \/ PushToSheets
    \/ EndRun

SpecDownstream == Init /\ [][NextDownstream]_vars

(* ------------- the authorization front end ----------------------------- *)
\* A query parameter is absent or empty (NoArg: request.args.get gives None
\* or "", "not x" holds for both) or carries a value.
StateArgs == {NoArg, "s1", "s2"}
CodeArgs == {NoArg, "code"}
ShopArgs == {NoArg, "shop.myshopify.com"}

\* generate_state_token(): a random string, never empty.
StateTokens == StateArgs \ {NoArg}

\* What the shop answers the token exchange with.
ExchangeAnswers == {"200 token", "200 no token", "400"}

\* session.get('oauth_state') of a request: the signed session cookie holds
\* what /auth stored; a request that carries no cookie has an empty session.
SessionState(cookie) == IF cookie THEN web.session ELSE NoArg

\* Variant: only a state parameter that is present is compared.
StateRejected_lax(state, stored) == state # NoArg /\ state # stored

\* "if not state or state != session.get('oauth_state')"
StateRejected(state, stored) == state = NoArg \/ state # stored

Served(path, cookie, state, code, shop) ==
    [path |-> path, cookie |-> cookie, state |-> state, code |-> code, shop |-> shop]

\* What only the front end leaves alone.
syncVars ==
    <<db, runs, pc, incremental, cur, phase, remote, shop_tz, clock, events, last_sync,
      params, all_items, page_count, links, req, items, max_updated, saved, served, snap,
      retry, conn, schema, stop, thread, last_run, executor, wire, down>>

\* GET /auth?shop=...: store a new state token in the session and redirect
\* the browser to the shop's authorization page.
auth(shop) ==
    /\ IF shop = NoArg
       THEN web' = [web EXCEPT !.request = Served("auth", TRUE, NoArg, NoArg, shop),
                               !.response = [status |-> 400, token |-> FALSE]]
       ELSE \E state \in StateTokens :
               web' = [web EXCEPT !.session = state,
                                  !.request = Served("auth", TRUE, NoArg, NoArg, shop),
                                  !.response = [status |-> 302, token |-> FALSE]]
    /\ UNCHANGED syncVars

\* GET /auth/callback?state=...&code=...&shop=...
auth_callback(cookie, state, code, shop) ==
    /\ IF StateRejected(state, SessionState(cookie))
       THEN web' = [web EXCEPT !.request = Served("callback", cookie, state, code, shop),
                               !.response = [status |-> 403, token |-> FALSE]]
       ELSE IF code = NoArg \/ shop = NoArg
       THEN web' = [web EXCEPT !.request = Served("callback", cookie, state, code, shop),
                               !.response = [status |-> 400, token |-> FALSE]]
       ELSE /\ Len(web.outbound) < MaxExchanges
            /\ \E answer \in ExchangeAnswers :
                  web' = [web EXCEPT
                            !.request = Served("callback", cookie, state, code, shop),
                            !.outbound = Append(@, [shop |-> shop, code |-> code]),
                            !.response = IF answer = "200 token"
                                         THEN [status |-> 200, token |-> TRUE]
                                         ELSE [status |-> 400, token |-> FALSE]]
    /\ UNCHANGED syncVars

NextAuth ==
    \/ \E shop \in ShopArgs : auth(shop)
    \/ \E cookie \in BOOLEAN, state \in StateArgs, code \in CodeArgs, shop \in ShopArgs :
          auth_callback(cookie, state, code, shop)

SpecAuth == Init /\ [][NextAuth]_vars

(* =============================== claims ================================ *)
WatermarkOf(d, e) == db_get_metadata(d, WatermarkKey(e))

\* C1: the stored watermark of an entity type never decreases: in every step
\* a stored watermark stays stored and its instant after the step is greater
\* than or equal to its instant before.
C1_WatermarkNeverDecreases ==
    [][\A e \in Entities :
          Parsable(WatermarkOf(db, e)) =>
             /\ Parsable(WatermarkOf(db', e))
             /\ StrInstant(WatermarkOf(db', e)) >= StrInstant(WatermarkOf(db, e))]_vars

\* w denotes the maximum updated_at among the records of list.
IsMaxUpdatedAt(w, list) ==
    /\ Parsable(w)
    /\ \E k \in 1..Len(list) :
          /\ Parsable(list[k].updated_at)
          /\ StrInstant(list[k].updated_at) = StrInstant(w)
    /\ \A j \in 1..Len(list) :
          Parsable(list[j].updated_at) => StrInstant(list[j].updated_at) <= StrInstant(w)

HasParsable(list) == \E k \in 1..Len(list) : Parsable(list[k].updated_at)

PassReturned == pc = "pass" /\ phase = "returned"

\* C2 as stated: after a successful pass that fetched at least one record the
\* stored watermark equals the maximum updated_at over the fetched records;
\* after one that fetched none it is unchanged.
C2_WatermarkIsMaxOfFetched ==
    PassReturned =>
        IF Len(items.list) >= 1
        THEN IsMaxUpdatedAt(WatermarkOf(db, cur), items.list)
        ELSE WatermarkOf(db, cur) = last_sync

\* C2 amended: after a successful pass in which at least one fetched record
\* carries a parsable updated_at, the stored watermark equals the maximum
\* updated_at over those records; after a successful pass in which no fetched
\* record carries one (in particular after fetching zero records) the stored
\* watermark is unchanged.
C2_WatermarkIsMaxOfParsable ==
    PassReturned =>
        IF HasParsable(items.list)
        THEN IsMaxUpdatedAt(WatermarkOf(db, cur), items.list)
        ELSE WatermarkOf(db, cur) = last_sync

C2_Witness ==
    /\ PassReturned
    /\ Len(items.list) >= 2
    /\ \E j, k \in 1..Len(items.list) :
          /\ j < k
          /\ Parsable(items.list[j].updated_at) /\ Parsable(items.list[k].updated_at)
          /\ StrInstant(items.list[j].updated_at) > StrInstant(items.list[k].updated_at)
    /\ IsMaxUpdatedAt(WatermarkOf(db, cur), items.list)
    /\ WatermarkOf(db, cur) # last_sync

\* C3: no update is lost: when an incremental pass has returned, every record
\* that the shop held when the pass began and still holds has a local row at
\* least as recent as the record was when the pass began.
C3_NoUpdateLost ==
    (PassReturned /\ incremental) =>
        \A i \in DOMAIN snap \cap DOMAIN remote[cur] :
            Parsable(snap[i].updated_at) =>
                /\ i \in DOMAIN db[cur]
                /\ Parsable(db[cur][i].updated_at)
                /\ StrInstant(db[cur][i].updated_at) >= StrInstant(snap[i].updated_at)

EntityTables == {"products", "product_variants", "customers", "orders", "line_items"}

\* C4: upserting is idempotent: when the write loop is applied to a record
\* set it has already been applied to, every table keeps exactly its rows.
C4_UpsertIdempotent ==
    [][(pc = "pass" /\ phase = "store" /\ runs >= 2) =>
          \A t \in EntityTables : db'[t] = db[t]]_vars

RECURSIVE Flatten(_)
Flatten(pages) == IF pages = << >> THEN << >> ELSE Head(pages) \o Flatten(Tail(pages))

\* C5: what fetch_all_rest returns is the concatenation of the items of all
\* pages the remote served, in page order and item order, nothing dropped or
\* repeated, whether or not requests were retried.
C5_PaginationComplete ==
    items.has =>
        /\ items.list = Flatten(served)
        /\ page_count = Len(served)

C5_Witness ==
    /\ items.has
    /\ Len(served) >= 2
    /\ Len(items.list) >= 2
    /\ req.retried

\* C6: once a page request has exhausted its attempts, fetch_all_rest has
\* raised: the pass holds no item list and the invocation has failed, also
\* when earlier pages had been fetched.
C6_NoPartialResult ==
    req.result = "raise" => (~items.has /\ pc = "failed")

C6_Witness ==
    /\ req.result = "raise"
    /\ page_count >= 1
    /\ Len(all_items) >= 1
    /\ ~items.has

\* C7: a step that ends with the fetch of a pass failed fatally leaves every
\* table and every watermark as it was, and the failed entity's watermark is
\* the one read when the pass began.
C7_FatalFetchKeepsWatermark ==
    [][req'.result = "raise" =>
          /\ db' = db
          /\ WatermarkOf(db', cur') = last_sync']_vars

C7_Witness ==
    /\ req.result = "raise"
    /\ cur = "orders"
    /\ Parsable(last_sync)
    /\ Parsable(WatermarkOf(db, "products"))
    /\ Parsable(WatermarkOf(db, "customers"))
    /\ DOMAIN db.products # {}

\* The steps run_full_sync may take from one position to the next.
OrderedStep ==
    \/ pc = "idle" /\ pc' = "init_db"
    \/ pc = "init_db" /\ pc' = "pass" /\ cur' = "products"
    \/ pc = "pass" /\ pc' = "pass" /\ cur' = cur
    \/ /\ pc = "pass" /\ phase = "returned" /\ pc' = "pass"
       /\ <<cur, cur'>> \in {<<"products", "customers">>, <<"customers", "orders">>}
    \/ pc = "pass" /\ phase = "returned" /\ cur = "orders" /\ pc' = "export"
    \/ pc = "pass" /\ pc' = "failed"
    \/ pc = "export" /\ pc' = "done"
    \/ pc \in {"done", "failed"} /\ pc' = "idle"

\* C8: every invocation enters init_db, the products pass, the customers pass
\* and the orders pass in that order, each only after the previous one returned.
C8_StrictOrder ==
    [][(pc' # pc \/ cur' # cur) => OrderedStep]_vars

C8_Witness ==
    /\ pc = "pass" /\ cur = "orders" /\ phase = "returned"
    /\ runs = 1
    /\ DOMAIN db.products # {} /\ DOMAIN db.customers # {} /\ DOMAIN db.orders # {}

\* C9: after a fatal failure in a pass no further pass is started in that
\* invocation and the store keeps everything the completed passes wrote.
C9_FailureAbortsRest ==
    [][(pc = "failed" \/ req.result = "raise") =>
          /\ pc' \in {"failed", "idle"}
          /\ db' = db]_vars

C9_Witness ==
    /\ pc = "failed"
    /\ runs = 1
    /\ cur = "customers"
    /\ DOMAIN db.products # {}
    /\ Parsable(WatermarkOf(db, "products"))
    /\ DOMAIN db.orders = {}

InIncrementalFetch ==
    /\ pc = "pass" /\ phase \in {"first", "next", "store", "watermark", "returned"}
    /\ incremental
    /\ last_sync.form # "none"

\* C10: in an incremental pass with stored watermark W the updated_at_min sent
\* is the instant W - 60 s written in UTC, and every record whose updated_at
\* is W - 30 s is selected by that filter.
C10_LookbackFilter ==
    InIncrementalFetch =>
        /\ params.updated_at_min.form = "Z"
        /\ params.updated_at_min.off = 0
        /\ params.updated_at_min.wall = StrInstant(last_sync) - LOOKBACK_SECONDS
        /\ \A i \in DOMAIN remote[cur] :
              (/\ Parsable(remote[cur][i].updated_at)
               /\ StrInstant(remote[cur][i].updated_at) = StrInstant(last_sync) - 30)
              => i \in Matching(cur, Url(0, params.updated_at_min))

C10_Witness ==
    /\ InIncrementalFetch
    /\ items.has
    /\ shop_tz # 0
    /\ \E k \in 1..Len(items.list) :
          /\ Parsable(items.list[k].updated_at)
          /\ StrInstant(items.list[k].updated_at) = StrInstant(last_sync) - 30
          /\ items.list[k].id \in DOMAIN db[cur]

InFetch == pc = "pass" /\ phase \in {"first", "next", "store", "watermark", "returned"}

\* C11: a pass sends an updated_at_min filter exactly when incremental is true
\* and a watermark is stored for its entity type; without the filter the
\* request selects every record of the shop; and a pass with incremental
\* false still advances the watermark from the records it fetched.
C11_FilterIffIncrementalAndStored ==
    /\ InFetch =>
          /\ (params.updated_at_min.form # "none") <=> (incremental /\ last_sync.form # "none")
          /\ params.updated_at_min.form = "none" =>
                Matching(cur, Url(0, params.updated_at_min)) = DOMAIN remote[cur]
    /\ (PassReturned /\ ~incremental /\ HasParsable(items.list)) =>
          IsMaxUpdatedAt(WatermarkOf(db, cur), items.list)

\* A full resync over a stored watermark fetched a record older than the
\* lookback window and advanced the watermark.
C11_Witness ==
    /\ PassReturned
    /\ ~incremental
    /\ Parsable(last_sync)
    /\ params.updated_at_min.form = "none"
    /\ \E k \in 1..Len(items.list) :
          /\ Parsable(items.list[k].updated_at)
          /\ StrInstant(items.list[k].updated_at) < StrInstant(last_sync) - LOOKBACK_SECONDS
    /\ IsMaxUpdatedAt(WatermarkOf(db, cur), items.list)
    /\ WatermarkOf(db, cur) # last_sync

\* The step is an attempt of request_with_retries that got a 429 response.
Got429 == retry'.sent = retry.sent + 1 /\ retry'.last.kind = "429"

\* C12: on a 429 response carrying Retry-After: s the client sleeps s seconds
\* before the next attempt, whatever the backoff value is; when the header is
\* missing it sleeps the current backoff value.
C12_RetryAfterHonoured ==
    [][Got429 =>
          /\ Len(retry'.slept) = Len(retry.slept) + 1
          /\ retry'.slept[Len(retry'.slept)] =
                IF retry'.last.retry_after.form = "absent"
                THEN retry.sleep_seconds
                ELSE retry'.last.retry_after.secs]_vars

\* C13: a logical request issues at most max_retries HTTP attempts, 429
\* responses and errors counted together in any mix, and fails once the
\* fifth attempt was unsuccessful.
C13_AttemptBudget ==
    /\ retry.sent <= MAX_RETRIES
    /\ retry.sent = retry.attempt
    /\ (retry.sent = MAX_RETRIES /\ retry.last.kind # "ok") => retry.result \in {"raise", "error"}
    /\ retry.result = "raise" => retry.sent = MAX_RETRIES

\* Five unsuccessful attempts, 429 and errors mixed, ended the request.
C13_Witness ==
    /\ retry.result = "raise"
    /\ retry.sent = MAX_RETRIES
    /\ Len(retry.slept) = MAX_RETRIES
    /\ retry.last.kind = "429"
    /\ \E k \in 1..Len(retry.slept) : retry.slept[k] = 3
    /\ \E k \in 1..Len(retry.slept) : retry.slept[k] = 4

\* The write loop of the pass has run and committed.
Stored == pc = "pass" /\ phase \in {"watermark", "returned"}

\* Line item c of order r has its row.
LineItemStored(r, c) ==
    /\ c.id \in DOMAIN db.line_items
    /\ db.line_items[c.id].parent_id = r.id

\* C15: an order whose total_price is no number is written with total_price
\* null and all its line items are written; a line item whose price is no
\* number is written with price null; and the pass goes on: it never fails
\* and every fetched order is written.
C15_UnparsablePriceStoredNull ==
    /\ pc # "failed"
    /\ Stored =>
          \A k \in 1..Len(items.list) :
             LET r == items.list[k]
             IN /\ r.id \in DOMAIN db.orders
                /\ r.total_price.form = "bad" => db.orders[r.id].total_price = SqlNull
                /\ \A j \in 1..Len(r.nested) :
                      /\ LineItemStored(r, r.nested[j])
                      /\ r.nested[j].price.form = "bad" =>
                            db.line_items[r.nested[j].id].price = SqlNull

\* The first of two orders has an unparsable total_price, a line item with an
\* unparsable price and one with a good price, and both orders are stored.
C15_Witness ==
    /\ Stored
    /\ Len(items.list) = 2
    /\ items.list[1].total_price.form = "bad"
    /\ Len(items.list[1].nested) = 2
    /\ items.list[1].nested[1].price.form = "bad"
    /\ items.list[1].nested[2].price.form = "num"
    /\ db.orders[items.list[1].id].total_price = SqlNull
    /\ db.line_items[items.list[1].nested[2].id].price = SqlReal(GoodPrice.val)
    /\ items.list[2].id \in DOMAIN db.orders

\* C16: an order without a total_price field and a line item without a price
\* field are stored with a null price, and the record is committed.
C16_MissingPriceStoredNull ==
    Stored =>
        \A k \in 1..Len(items.list) :
           LET r == items.list[k]
           IN /\ r.id \in DOMAIN db.orders
              /\ r.total_price.form = "missing" => db.orders[r.id].total_price = SqlNull
              /\ \A j \in 1..Len(r.nested) :
                    /\ LineItemStored(r, r.nested[j])
                    /\ r.nested[j].price.form = "missing" =>
                          db.line_items[r.nested[j].id].price = SqlNull

\* The child rows of store d that point to parent r.
ChildRowsOf(d, r) ==
    {key \in DOMAIN d[ChildTable(cur)] : d[ChildTable(cur)][key].parent_id = r.id}

\* All children of the fetched record r have their rows in d: each child that
\* carries an id under that id, each child without one under a key of its own.
AllChildrenPresent(d, r) ==
    /\ \A j \in 1..Len(r.nested) :
          r.nested[j].id # NoId => r.nested[j].id \in ChildRowsOf(d, r)
    /\ Cardinality(ChildRowsOf(d, r)) >=
          Cardinality({r.nested[j].id : j \in 1..Len(r.nested)} \ {NoId})
          + Cardinality({j \in 1..Len(r.nested) : r.nested[j].id = NoId})

\* C14 as stated: whatever point of a pass a crash hits, the store a reader
\* then sees holds, for every fetched product or order, the parent row
\* together with all of the record's children, or neither the parent row nor
\* any of them.
C14_ParentWithAllChildrenOrNeither ==
    cur \in {"products", "orders"} =>
        \A k \in 1..Len(items.list) :
           LET r == items.list[k]
           IN r.id # NoId =>
                \/ r.id \in DOMAIN db[cur] /\ AllChildrenPresent(db, r)
                \/ r.id \notin DOMAIN db[cur] /\ ChildRowsOf(db, r) = {}

\* C14 amended: whatever point of a pass a crash hits, the store a reader
\* then sees holds, for every fetched product or order, the parent row
\* together with all of the record's children, or exactly the rows it held
\* when the pass began: every step of a pass (a crash included) leaves all
\* entity tables as they are, or leaves every fetched record's parent row
\* and all of its children in the store.
C14_UpsertAtomicUnderCrash ==
    [][\/ \A t \in EntityTables : db'[t] = db[t]
       \/ \A k \in 1..Len(items.list) :
             /\ items.list[k].id \in DOMAIN db'[cur]
             /\ AllChildrenPresent(db', items.list[k])]_vars

\* The process died inside a record of the second pass, after the INSERT of
\* its parent: the store holds the record's parent row from the first pass
\* and not the child the shop has added since.
C14_Witness ==
    /\ pc = "crashed"
    /\ conn.fault = "crash"
    /\ runs = 2
    /\ conn.j >= 1
    /\ items.list[conn.k].id \in DOMAIN db[cur]
    /\ ~AllChildrenPresent(db, items.list[conn.k])
    /\ \E c \in ChildRowsOf(db, items.list[conn.k]) : TRUE

\* C17: a write failure on one row skips that row only: the pass does not
\* fail, and when it has returned every other fetched record is stored.
C17_WriteFailureSkipsRow ==
    conn.fault = "sqlite3.Error" =>
        /\ pc # "failed"
        /\ PassReturned =>
              \A k \in 1..Len(items.list) :
                 (k # conn.k /\ items.list[k].id # NoId) => items.list[k].id \in DOMAIN db[cur]

\* The write loop of the pass has ended, normally or by an exception.
WriteLoopOver == pc = "failed" \/ Stored

\* C18: a customer record without id is a fault for that record only: no row
\* is written for it, every other customer record of the pass is written,
\* and a record that has its id is written with the fields it lacks null.
C18_MissingIdSkipsRecordOnly ==
    (cur = "customers" /\ WriteLoopOver) =>
        /\ NoId \notin DOMAIN db.customers
        /\ \A k \in 1..Len(items.list) :
              items.list[k].id # NoId =>
                 /\ items.list[k].id \in DOMAIN db.customers
                 /\ db.customers[items.list[k].id].updated_at = items.list[k].updated_at

\* C19: init_db is idempotent and best-effort: a call never drops a table or
\* a column and keeps every row; it does not fail; afterwards all six tables
\* exist and every column migrate_schema names is there unless SQLite refused
\* to add it (the additions after a refused one are still made); and a call
\* on a store init_db has already run on changes no table and no column.
C19_InitDbIdempotentBestEffort ==
    [][pc = "init_db" =>
          /\ pc' = "pass"
          /\ db' = db
          /\ \A t \in DOMAIN schema.tables :
                t \in DOMAIN schema'.tables /\ schema.tables[t] \subseteq schema'.tables[t]
          /\ DOMAIN schema'.tables = Range(Tables)
          /\ \A i \in 1..Len(MigratedTables) :
                \A c \in Range(TableColumns(MigratedTables[i])) :
                   \/ c \in schema'.tables[MigratedTables[i]]
                   \/ <<MigratedTables[i], c>> \in schema'.failed
          /\ runs >= 2 => schema'.tables = schema.tables]_vars

\* init_db ran on a store whose products table lacked id and updated_at:
\* the addition of id was refused, updated_at was added after it, the
\* table's own column is still there, and all six tables exist.
C19_Witness ==
    /\ runs = 1
    /\ pc = "pass"
    /\ <<"products", "id">> \in schema.failed
    /\ <<"products", "updated_at">> \in schema.added
    /\ <<"orders", "updated_at">> \in schema.added
    /\ "legacy" \in schema.tables["products"]
    /\ DOMAIN schema.tables = Range(Tables)

\* C20: once a stop signal has been raised during a pass, no further HTTP
\* request is issued (the remote serves no further page and no request ends),
\* and the watermark of the cancelled pass stays the one stored before the
\* pass: no watermark is written any more.
C20_StopSignalHonoured ==
    [][stop =>
          /\ served' = served
          /\ page_count' = page_count
          /\ req' = req \/ req' = NoReq
          /\ db'.metadata = db.metadata]_vars

\* C21: a fatal fetch failure makes the invocation fail visibly (a request
\* that ran out of attempts leaves run_full_sync raised), and on the schedule
\* the next invocation still takes place with the affected entity type's
\* watermark unadvanced, and reads that watermark when it comes to the pass.
C21_FatalFetchFailsRunAndIsRetried ==
    /\ [](req.result = "raise" => pc \in {"failed", "exited"})
    /\ \A e \in Entities :
          (pc = "failed" /\ req.result = "raise" /\ cur = e /\ runs < MaxRuns)
             ~> (/\ pc = "init_db"
                 /\ last_run.failed /\ last_run.at = e
                 /\ db_get_metadata(db, WatermarkKey(e)) = last_run.mark)
    /\ [](\A e \in Entities :
            (pc = "pass" /\ cur = e /\ phase = "first" /\ last_run.failed /\ last_run.at = e)
               => last_sync = last_run.mark)

\* The ids of the fetched records are pairwise distinct.
DistinctIds(list) == \A j, k \in 1..Len(list) : list[j].id = list[k].id => j = k

\* The first invocation, a full sync, has fetched a product feed of several
\* pages into the empty store and its products pass has returned.
FirstFullSyncDone ==
    /\ PassReturned /\ cur = "products"
    /\ runs = 1 /\ ~incremental
    /\ Len(served) >= 2
    /\ DistinctIds(items.list)

ParentsExist(ct, pt) ==
    \A key \in DOMAIN db[ct] : db[ct][key].parent_id \in DOMAIN db[pt]

\* C23: in every committed state every product_variants row points to an
\* existing products row and every line_items row to an existing orders row;
\* once a pass has committed, each child of a fetched record has its row
\* under the id of the record it was nested in, and each order row carries
\* the id of the order's embedded customer object, or null when the order
\* has none (or the object has no id).
C23_ParentLinksPreserved ==
    /\ ParentsExist("product_variants", "products")
    /\ ParentsExist("line_items", "orders")
    /\ Stored =>
          \A k \in 1..Len(items.list) :
             LET r == items.list[k]
             IN /\ r.id \in DOMAIN db[cur]
                /\ \A j \in 1..Len(r.nested) :
                      r.nested[j].id # NoId =>
                         /\ r.nested[j].id \in DOMAIN db[ChildTable(cur)]
                         /\ db[ChildTable(cur)][r.nested[j].id].parent_id = r.id
                /\ cur = "orders" =>
                      db.orders[r.id].customer_id =
                         IF r.customer.form = "object" /\ r.customer.id # NoId
                         THEN [null |-> FALSE, val |-> r.customer.id]
                         ELSE [null |-> TRUE, val |-> 0]

\* The second orders pass has committed two orders: the first with an
\* embedded customer and two line items (fewer in the pass before, so one
\* row is new), the second without customer and with an id-less line item.
C23_Witness ==
    /\ Stored
    /\ cur = "orders"
    /\ runs = 2
    /\ Len(items.list) = 2
    /\ items.list[1].customer = Customer("object", 1)
    /\ items.list[2].customer = NoCustomer
    /\ Len(items.list[1].nested) = 2
    /\ items.list[2].nested = <<Child(NoId, GoodPrice)>>
    /\ db.orders[1].customer_id = SqlInteger(1)
    /\ db.orders[2].customer_id = SqlNull
    /\ Cardinality(ChildRowsOf(db, items.list[1])) = 2
    /\ Cardinality(ChildRowsOf(db, items.list[2])) >= 2

\* The step is an attempt of request_with_retries that was unsuccessful and
\* did not end in the conversion error of a Retry-After header.
FailedAttempt ==
    /\ retry'.sent = retry.sent + 1
    /\ retry'.last.kind # "ok"
    /\ retry'.result # "error"

\* C24: the backoff value starts at 1 second and doubles after every
\* unsuccessful attempt whatever its cause: before the (k+1)-th attempt it is
\* 2^k, the sleep after an error is the value reached so far (2^(k-1) after
\* the k-th of k consecutive errors), and a 429 doubles the value an error
\* sleeps later.
C24_BackoffDoubles ==
    [][FailedAttempt =>
          /\ retry.sleep_seconds = 2 ^ retry.attempt
          /\ retry'.sleep_seconds = 2 * retry.sleep_seconds
          /\ Len(retry'.slept) = Len(retry.slept) + 1
          /\ retry'.last.kind = "err" =>
                retry'.slept[Len(retry'.slept)] = 2 ^ retry.attempt]_vars

\* An error, a 429 with Retry-After: 3, and three errors more: the sleeps
\* were 1, 3, 4, 8 and 16 seconds.
C24_Witness ==
    /\ retry.result = "raise"
    /\ retry.slept = <<1, 3, 4, 8, 16>>
    /\ retry.sleep_seconds = 32
    /\ retry.last.status = NoStatus

\* C25: request_with_retries returns a response only when its status is 2xx:
\* an attempt that got any other status, or no response, is not returned as
\* the result, consumes one attempt and (unless the conversion of a 429's
\* Retry-After header fails) is followed by a sleep.
C25_OnlySuccessReturned ==
    [][retry'.sent = retry.sent + 1 =>
          /\ retry'.result = "ok" <=>
                (retry'.last.status >= 200 /\ retry'.last.status < 300)
          /\ retry'.attempt = retry.attempt + 1
          /\ (retry'.result \notin {"ok", "error"}) =>
                Len(retry'.slept) = Len(retry.slept) + 1]_vars

\* The entity types whose pass has completed when an invocation fails in the
\* pass of e.
PassesBefore(e) ==
    CASE e = "products" -> {}
      [] e = "customers" -> {"products"}
      [] e = "orders" -> {"products", "customers"}
      [] OTHER -> {}

\* C26: after an invocation in which a pass failed fatally, the next
\* invocation resumes only the failed and the not-yet-run entity types: it
\* gets no page of an entity type whose pass completed in the failed
\* invocation.
C26_ResumesOnlyFailedAndRemaining ==
    (pc = "pass" /\ last_run.failed /\ Len(served) >= 1) =>
        cur \notin PassesBefore(last_run.at)

\* C27: after init_db has run on a store created under an older column set,
\* every one of the six tables has every column of the current model.
C27_AllColumnsAfterInitDb ==
    [][pc = "init_db" =>
          \A t \in Range(Tables) :
             /\ t \in DOMAIN schema'.tables
             /\ Range(TableColumns(t)) \subseteq schema'.tables[t]]_vars

\* The position of the last occurrence of id in list.
LastIndex(list, id) == MaxOf({k \in 1..Len(list) : list[k].id = id})

\* C28: the records of a pass are upserted in the order in which they were
\* fetched: once the pass has committed, the row of every fetched id is the
\* one of the id's last occurrence in the fetched sequence.
C28_LastOccurrenceWins ==
    Stored =>
        \A k \in 1..Len(items.list) :
           /\ items.list[k].id \in DOMAIN db[cur]
           /\ db[cur][items.list[k].id].updated_at =
                 items.list[LastIndex(items.list, items.list[k].id)].updated_at

\* The same id was fetched twice with different updated_at, the earlier
\* occurrence the more recent one: the row is the later occurrence's.
C28_Witness ==
    /\ Stored
    /\ Len(items.list) = 2
    /\ items.list[1].id = items.list[2].id
    /\ Parsable(items.list[1].updated_at) /\ Parsable(items.list[2].updated_at)
    /\ StrInstant(items.list[1].updated_at) > StrInstant(items.list[2].updated_at)
    /\ db[cur][items.list[2].id].updated_at = items.list[2].updated_at

\* C29: the engine never deletes an entity: no step of any pass, succeeding
\* or failing, removes an id from any of the five entity tables, also when
\* the pass fetched fewer records or fewer children than the store holds.
C29_NeverDeletes ==
    [][\A t \in EntityTables : DOMAIN db[t] \subseteq DOMAIN db'[t]]_vars

\* The ids of the children the fetched list nests.
FetchedChildIds ==
    UNION {{items.list[k].nested[j].id : j \in 1..Len(items.list[k].nested)} :
              k \in 1..Len(items.list)}

\* The second pass has committed a list without the second record and
\* without the second child of the first record: both rows are still there.
C29_Witness ==
    /\ Stored
    /\ runs = 2
    /\ Len(items.list) = 1
    /\ Len(items.list[1].nested) = 1
    /\ 2 \in DOMAIN db[cur]
    /\ \E c \in DOMAIN db[ChildTable(cur)] \ FetchedChildIds :
          db[ChildTable(cur)][c].parent_id = items.list[1].id

\* C30: a record whose updated_at is missing or is no timestamp is written
\* like any other and never makes the pass fail; the watermark a pass writes
\* is the maximum over the records with a parsable updated_at only, and a
\* pass in which no fetched record has one writes its rows and leaves the
\* stored watermark as it was.
C30_UnparsableUpdatedAtWritten ==
    /\ [](pc # "failed")
    /\ [](Stored =>
            \A k \in 1..Len(items.list) :
               /\ items.list[k].id \in DOMAIN db[cur]
               /\ LastIndex(items.list, items.list[k].id) = k =>
                     db[cur][items.list[k].id].updated_at = items.list[k].updated_at)
    /\ [][(phase = "watermark" /\ phase' = "returned") =>
             IF HasParsable(items.list)
             THEN IsMaxUpdatedAt(WatermarkOf(db', cur), items.list)
             ELSE db'.metadata = db.metadata]_vars

\* The second pass fetched one record without updated_at and one whose
\* updated_at is no timestamp: both rows are written as fetched and the
\* watermark the first pass stored is still the stored one.
C30_Witness ==
    /\ PassReturned
    /\ runs = 2
    /\ Len(items.list) = 2
    /\ items.list[1].id # items.list[2].id
    /\ items.list[1].updated_at = NoneStr
    /\ items.list[2].updated_at = BadStr
    /\ db[cur][items.list[1].id].updated_at = NoneStr
    /\ db[cur][items.list[2].id].updated_at = BadStr
    /\ Parsable(last_sync)
    /\ WatermarkOf(db, cur) = last_sync

\* The threads that are executing run_full_sync: the main thread during the
\* first run, and the instances of the job the executor is running.
Writers ==
    (IF thread = "main" /\ pc \notin {"idle", "exited"} THEN 1 ELSE 0) + executor.instances

\* C31: no two invocations of run_full_sync overlap: at most one thread is
\* inside run_full_sync at any time, the first run ends before the scheduler
\* starts, and a run time that falls into a running job is skipped.
C31_NoOverlap ==
    /\ Writers <= 1
    /\ thread = "worker" => (pc # "idle" <=> executor.instances = 1)

\* The trigger fired while the scheduled run was writing, and was skipped.
C31_Witness ==
    /\ thread = "worker"
    /\ pc = "pass" /\ phase = "watermark"
    /\ executor.skipped >= 1
    /\ executor.instances = 1

\* C32: the limit parameter of every first-page request fetch_all_rest
\* issues is at most 250, whatever params the caller passed.
C32_LimitCapped ==
    \A i \in 1..Len(wire) : wire[i].request = 1 => wire[i].limit <= PAGE_LIMIT

\* C33: a pass writes nothing to the store before its fetch has completed
\* for all pages: no step of the pass up to the last page changes a table or
\* the metadata, a fetch that fails on any page ends the pass and the
\* invocation, and nothing is written afterwards in that invocation.
C33_NoWriteBeforeFetchCompletes ==
    [][/\ (pc = "pass" /\ phase \in {"begin", "first", "next"}) => db' = db
       /\ (pc = "pass" /\ phase \in {"first", "next"} /\ req'.result = "raise")
             => (pc' = "failed" /\ db' = db)
       /\ pc = "failed" => db' = db]_vars

\* The fetch failed on a follow-up page: the records of the pages fetched
\* before are held in all_items and the store is as it was.
C33_Witness ==
    /\ pc = "failed" /\ phase = "raised"
    /\ req.result = "raise"
    /\ page_count >= 1 /\ Len(all_items) >= 1
    /\ db = EmptyDb

\* C34: all rows of one pass are committed in a single transaction: the
\* store other connections see changes its entity tables only in the step
\* that commits the whole loop, after which a row of every fetched record is
\* visible; a step in which the write loop raises leaves the tables and the
\* watermark as they were, and so does every step of a connection that is
\* open or was dropped.
C34_SingleTransaction ==
    [][/\ (\E t \in EntityTables : db'[t] # db[t]) =>
             /\ conn.open /\ conn.k > Len(items.list)
             /\ ~conn'.open /\ conn'.fault = "none"
             /\ db' = conn.db
             /\ \A k \in 1..Len(items.list) : items.list[k].id \in DOMAIN db'[cur]
       /\ (pc = "pass" /\ pc' = "failed") => db' = db
       /\ (conn.open /\ conn'.open) => db' = db
       /\ conn'.fault # "none" => db' = db]_vars

\* The write loop raised on a record without an id after it had inserted the
\* rows of an earlier record: none of them is in the store.
C34_Witness ==
    /\ pc = "failed"
    /\ conn.fault = "KeyError"
    /\ conn.k >= 2
    /\ items.list[1].id # NoId
    /\ \A t \in EntityTables : db[t] = EmptyTable
    /\ WatermarkOf(db, cur) = NoneStr

\* Every record of list has its parent row, and each of its children that
\* carries an id has its row, in store d.
RowsCommitted(d, list) ==
    \A k \in 1..Len(list) :
       /\ list[k].id \in DOMAIN d[cur]
       /\ cur # "customers" =>
             \A j \in 1..Len(list[k].nested) :
                list[k].nested[j].id # NoId =>
                   list[k].nested[j].id \in DOMAIN d[ChildTable(cur)]

\* No row of the store is newer than the stored watermark.
WatermarkCoversRows ==
    \A id \in DOMAIN db[cur] :
       Parsable(db[cur][id].updated_at) =>
          /\ WatermarkOf(db, cur) # NoneStr
          /\ StrInstant(db[cur][id].updated_at) <= StrInstant(WatermarkOf(db, cur))

\* C35: the watermark of a pass is written only after the rows of the pass
\* have been committed: a step that changes a watermark is taken with no
\* transaction open, finds the rows of every fetched record in the store and
\* changes no table; and when the pass that follows a crash has returned,
\* the watermark has caught up with the rows the store holds.
C35_WatermarkAfterCommit ==
    [][/\ (db'.metadata # db.metadata) =>
             /\ ~conn.open /\ conn.fault = "none"
             /\ RowsCommitted(db, items.list)
             /\ \A t \in EntityTables : db'[t] = db[t]
       /\ (pc' = "pass" /\ phase' = "returned" /\ last_run'.failed) =>
             /\ RowsCommitted(db', items.list)
             /\ WatermarkCoversRows']_vars

\* The process died after conn.commit() and before the watermark was
\* written, which left the rows in the store and the watermark unset; the
\* pass after the crash has fetched the records again, stored them and
\* written the watermark.
C35_Witness ==
    /\ pc = "pass" /\ phase = "returned"
    /\ last_run.failed /\ last_run.committed /\ last_run.mark = NoneStr
    /\ Len(items.list) >= 1
    /\ RowsCommitted(db, items.list)
    /\ WatermarkOf(db, cur) # NoneStr

\* The HTTP requests issued for the n-th page request of the fetch.
AttemptsOf(n) == Cardinality({i \in 1..Len(wire) : wire[i].request = n})

\* C36: the attempt budget and the backoff value are per page request: each
\* page request, the first and every follow-up, counts its attempts from
\* zero and starts its backoff at 1 second, gives up only after MAX_RETRIES
\* attempts of its own, and a fetch issues at most MAX_RETRIES requests per
\* page.
C36_BudgetPerPageRequest ==
    /\ \A n \in 1..(page_count + 1) : AttemptsOf(n) <= MAX_RETRIES
    /\ Len(wire) <= MAX_RETRIES * (page_count + 1)
    /\ (pc = "pass" /\ phase \in {"store", "watermark", "returned"})
          => Len(wire) <= MAX_RETRIES * page_count
    /\ (pc = "failed" /\ req.result = "raise") => AttemptsOf(page_count + 1) = MAX_RETRIES
    /\ (pc = "pass" /\ phase \in {"first", "next"} /\ retry.result = "pending") =>
          /\ retry.attempt = AttemptsOf(page_count + 1)
          /\ retry.sleep_seconds = 2 ^ AttemptsOf(page_count + 1)

\* The first page took four failed attempts and was served at the fifth;
\* the request of the second page has failed four times and has still one
\* attempt left, with the backoff at 16 seconds.
C36_Witness ==
    /\ pc = "pass" /\ phase = "next"
    /\ page_count = 1
    /\ AttemptsOf(1) = MAX_RETRIES
    /\ AttemptsOf(2) = MAX_RETRIES - 1
    /\ retry.result = "pending"
    /\ retry.sleep_seconds = 16

\* Following the "next" links from page k ends within n pages.
RECURSIVE LinksEnd(_, _)
LinksEnd(k, n) ==
    IF k = 0 THEN TRUE
    ELSE IF n = 0 THEN FALSE
    ELSE LinksEnd(remote.next[k], n - 1)

FiniteChain == LinksEnd(1, MaxPages)

\* C37: fetch_all_rest terminates when the chain of "next" links is finite:
\* the pass then returns or fails; when the links form a cycle the fetch
\* never returns: the pass stays in its fetch unless a request fails, and
\* writes no row and no watermark.
C37_TerminatesUnlessCyclic ==
    /\ (FiniteChain /\ phase = "first") ~> (pc = "failed" \/ phase = "returned")
    /\ [](~FiniteChain => (pc = "failed" \/ phase \in {"first", "next"}) /\ db = EmptyDb)

\* The links lead back to a page served before: the same URL has been
\* requested, and answered, a second time, and the fetch is still going on.
C37_Witness ==
    /\ ~FiniteChain
    /\ pc = "pass" /\ phase = "next"
    /\ page_count = MaxFetched
    /\ \E i, j \in 1..Len(wire) :
          wire[i].request < wire[j].request /\ wire[i].url = wire[j].url
    /\ db = EmptyDb

\* The tables the pass of e writes.
OwnTables(e) ==
    CASE e = "products" -> {"products", "product_variants"}
      [] e = "customers" -> {"customers"}
      [] e = "orders" -> {"orders", "line_items"}

\* The metadata key of the pass of e.
OwnKey(e) == e \o "_last_sync"

\* C38: each entity pass writes only its own state: a step of the pass of e
\* changes no entity table other than the tables of e and no metadata key
\* other than e's watermark key.
C38_PassWritesOwnStateOnly ==
    [][(pc = "pass" /\ cur \in Entities) =>
          /\ \A t \in EntityTables \ OwnTables(cur) : db'[t] = db[t]
          /\ \A key \in (DOMAIN db.metadata \cup DOMAIN db'.metadata) \ {OwnKey(cur)} :
                /\ key \in DOMAIN db.metadata /\ key \in DOMAIN db'.metadata
                /\ db'.metadata[key] = db.metadata[key]]_vars

\* The customers pass has returned: it has written customer rows and its
\* watermark next to the rows and the watermark of the products pass, and
\* nothing of the orders pass.
C38_Witness ==
    /\ pc = "pass" /\ cur = "customers" /\ phase = "returned"
    /\ db.customers # EmptyTable /\ db.products # EmptyTable
    /\ DOMAIN db.metadata = {"products_last_sync", "customers_last_sync"}
    /\ db.orders = EmptyTable /\ db.line_items = EmptyTable

\* The downstream steps invocation r has run, in order.
StepsOf(r) ==
    LET Mine(x) == x.run = r
        mine == SelectSeq(down, Mine)
    IN [k \in 1..Len(mine) |-> mine[k].step]

\* C39: the downstream steps of an invocation start only after the orders
\* pass, the last of the three, has returned, and run in the order CSV
\* export, analytics, spreadsheet push; an invocation in which a pass has
\* failed runs none of them; a failure inside the CSV export or the
\* spreadsheet push does not fail the invocation; and no downstream step
\* changes a table or a watermark.
C39_DownstreamAfterPasses ==
    [][/\ (pc' = "export" /\ pc # "export") =>
             (pc = "pass" /\ cur = "orders" /\ phase = "returned" /\ StepsOf(runs) = << >>)
       /\ \E n \in 0..3 : StepsOf(runs') = SubSeq(<<"csv", "analytics", "sheets">>, 1, n)
       /\ (pc' = "failed" /\ cur' \in Entities) => StepsOf(runs') = << >>
       /\ (down' # down) =>
             /\ db' = db
             /\ down' = Append(down, down'[Len(down')])
             /\ (down'[Len(down')].step \in {"csv", "sheets"}) => pc' # "failed"]_vars

\* The invocation has returned normally although an export function and the
\* spreadsheet push both failed.
C39_Witness ==
    /\ pc = "done"
    /\ \E i, j \in 1..Len(down) :
          /\ down[i] = Ran(runs, "csv", "failed")
          /\ down[j] = Ran(runs, "sheets", "failed")
    /\ Len(StepsOf(runs)) = 3

\* The step serves a callback.
CallbackServed == web' # web /\ web'.request.path = "callback"

\* C40: the token exchange request goes out only for a callback whose state
\* parameter is present and equal to the state a preceding /auth stored in
\* the session, and whose code and shop are present; a callback whose state
\* is missing or differs is answered 403, with no outbound request and no
\* token in the response.
C40_ExchangeOnlyAfterStateCheck ==
    [][/\ (web'.outbound # web.outbound) =>
             /\ web'.request.path = "callback"
             /\ web'.request.state # NoArg
             /\ web'.request.cookie /\ web.session # NoArg
             /\ web'.request.state = web.session
             /\ web'.request.code # NoArg /\ web'.request.shop # NoArg
             /\ web'.outbound = Append(web.outbound,
                   [shop |-> web'.request.shop, code |-> web'.request.code])
       /\ (CallbackServed /\ \/ web'.request.state = NoArg
                             \/ ~web'.request.cookie
                             \/ web'.request.state # web.session) =>
             /\ web'.response.status = 403
             /\ ~web'.response.token
             /\ web'.outbound = web.outbound
       /\ web'.response.token => web'.outbound # web.outbound]_vars

\* A callback with the stored state was answered with a token, and a later
\* callback with another state was refused.
C40_Witness ==
    /\ Len(web.outbound) = 1
    /\ web.session # NoArg
    /\ web.request.path = "callback"
    /\ web.request.state # NoArg /\ web.request.state # web.session
    /\ web.response.status = 403

====
